---------------------------- MODULE Spec2Model ----------------------------
(***************************************************************************)
(* A model of the SwiftCast proxy (devload/swiftcast, src-tauri):          *)
(*   - the accounting store (storage/database.rs) at the granularity of    *)
(*     one SQL statement per step, driven by the UI commands               *)
(*     (commands/mod.rs) and by the request handler (proxy/server.rs);     *)
(*   - the pure parts of proxy_handler (session-id derivation, outbound    *)
(*     authentication headers) as operators;                               *)
(*   - the request pipeline and the response relay of proxy_handler.       *)
(*                                                                         *)
(* The SQLite pool is opened through sqlx with its default options, which  *)
(* enable foreign-key enforcement: the ON DELETE CASCADE clauses of the    *)
(* schema (database.rs:64, :134) delete dependent rows, and an insert that *)
(* names a missing account fails.                                          *)
(***************************************************************************)
EXTENDS Integers, Sequences, FiniteSets, TLC

VARIABLES
    accounts,   \* table accounts: id -> [is_active]
    apiKeys,    \* key vault (.api_keys.json): the account ids that have an entry
    nextId,     \* number of account ids issued so far (Account::new draws a fresh uuid)
    sessions,   \* table session_config: session_id -> [account_id, model_override]
    mappings,   \* table threadcast_mapping: the session ids that have a row
    usageLog,   \* table usage_logs: the rows, as [account_id, session_id]
    everSession, \* history: the session ids that have had a session_config row,
                 \* and which history a specification keeps
    envTodo,    \* whether THREADCAST_TODO_ID is set in the process environment
    cmd,        \* the UI command tasks in flight: slot -> record
    req,        \* the request being routed by proxy_handler
    lastRoute,  \* the routing decision of the previous request, while the store
                \* has not been touched by a command since that request began
    hdr,        \* the inbound headers from which the session id is derived
    sidOut,     \* session-id derivation: the derived session id
    authIn,     \* outbound headers: inbound headers, account base_url, stored key
    authOut,    \* outbound headers: the headers of the upstream request
    upstream,   \* response relay: the chunks the upstream has yet to send
    received,   \* response relay: the chunks received from the upstream
    delivered,  \* response relay: the chunks handed to the client body
    tasks,      \* response relay: the detached tasks spawned and not yet finished
    apiLog,     \* response relay: api_logging_enabled of the request
    pipe,       \* request pipeline: inputs and position of one request
    events,     \* request pipeline: what the request has done, in order
    sse,        \* command interceptor: the response text and its SSE events
    parse,      \* command interceptor: a user message and its parsed directive
    proxy,      \* start/stop: the proxy slot, the shutdown sender, the accept loop
    conns,      \* start/stop: the client connections, by what became of them
    rb,         \* response stream: what the detached tasks have done so far
    tracker,    \* step tracker: the phases of the session and the updates emitted
    sem,        \* usage-log tasks: the DB-task semaphore and the tasks, by position
    scan,       \* SSE scanner: a response, its chunking and the events extracted
    reg,        \* hook registry: the hooks, the enable flag and a dispatch in flight
    icpt,       \* command interceptor: a messages array and the message taken from it
    ov,         \* model override: an inbound body, the session's override and the body sent
    inj,        \* compaction injector: config, request body, answer
    qd          \* question detector: buffer, texts of the chunks, detections

acctVars == <<accounts, apiKeys, nextId>>
sessVars == <<sessions, mappings>>
usageVars == <<usageLog, everSession>>
routeVars == <<req, lastRoute>>
storeVars == <<acctVars, sessVars, envTodo, cmd, routeVars>>
sidVars == <<hdr, sidOut>>
authVars == <<authIn, authOut>>
relayVars == <<upstream, received, delivered, tasks, apiLog>>
pipeVars == <<pipe, events>>
taskVars == <<sse, parse>>
stopVars == <<proxy, conns>>
hookVars == <<reg, icpt, ov, inj, qd>>
streamVars == <<rb, tracker, sem, scan, hookVars>>
fnVars == <<sidVars, authVars, relayVars, pipeVars, taskVars, stopVars, streamVars>>
vars == <<accounts, apiKeys, nextId, sessions, mappings, envTodo, cmd, req,
          lastRoute, hdr, sidOut, authIn, authOut, upstream, received,
          delivered, tasks, apiLog, pipe, events, sse, parse, usageLog,
          everSession, proxy, conns, rb, tracker, sem, scan,
          reg, icpt, ov, inj, qd>>

----------------------------------------------------------------------------
(* Bounds *)

MaxAccounts == 2      \* accounts ever created
NumCmd == 2           \* UI commands that may run concurrently
MaxValLen == 2        \* longest header value, in characters
MaxHeaders == 2       \* inbound headers of a request
MaxChunks == 2        \* chunks of a response stream

AccountIds == 1..MaxAccounts
NoAccount == 0        \* an id argument that names no account
CmdSlots == 1..NumCmd

NoModel == "null"                  \* model_override IS NULL
Models == {"opus"}                 \* the model overrides a session may carry
Chars == {"a", "-"}                \* the characters of a header value
EmptySid == <<>>                   \* the session id that is the empty string
SessionKeys == {EmptySid, <<"a">>} \* the session ids the routed requests carry
ConfigKeys == {<<"a">>}            \* the session ids the UI configures

----------------------------------------------------------------------------
(* storage/database.rs: the statements of the account operations *)

AllIds(accts) == DOMAIN accts

\* SELECT ... FROM accounts WHERE is_active = 1
ActiveIds(accts) == {a \in DOMAIN accts : accts[a].is_active}

\* INSERT INTO accounts (id, ..., is_active) VALUES (?, ..., ?)
InsertAccount(accts, id, active) ==
    [a \in DOMAIN accts \cup {id} |->
        IF a = id THEN [is_active |-> active] ELSE accts[a]]

ClearActiveFlip(accts) ==
    [a \in DOMAIN accts |-> [is_active |-> ~accts[a].is_active]]

\* UPDATE accounts SET is_active = 0
ClearActive(accts) ==
    [a \in DOMAIN accts |-> [is_active |-> FALSE]]

\* UPDATE accounts SET is_active = 1 WHERE id = ?
SetActive(accts, id) ==
    [a \in DOMAIN accts |->
        IF a = id THEN [is_active |-> TRUE] ELSE accts[a]]

\* Database::switch_account run to completion with nothing in between
SwitchAccount(accts, id) == SetActive(ClearActive(accts), id)

\* DELETE FROM accounts WHERE id = ?
DeleteAccountRow(accts, id) ==
    [a \in DOMAIN accts \ {id} |-> accts[a]]
CascadeSessionsKeeps(sess, id) == sess

\* session_config: FOREIGN KEY (account_id) REFERENCES accounts(id) ON DELETE CASCADE
CascadeSessions(sess, id) ==
    [k \in {x \in DOMAIN sess : sess[x].account_id # id} |-> sess[k]]

UpsertSessionNoRow(sess, sid, account_id, model_override) == sess

\* Database::upsert_session_config: INSERT ... ON CONFLICT(session_id) DO UPDATE
\* SET account_id, model_override, last_activity_at
UpsertSession(sess, sid, account_id, model_override) ==
    [k \in DOMAIN sess \cup {sid} |->
        IF k = sid
           THEN [account_id |-> account_id, model_override |-> model_override]
           ELSE sess[k]]

\* Database::delete_session_config: DELETE FROM session_config WHERE session_id = ?
DeleteSessionRow(sess, sid) ==
    [k \in DOMAIN sess \ {sid} |-> sess[k]]

\* history: the session ids of the rows of session_config are remembered
\* (in the specification that checks the usage log against them)
Remember ==
    everSession' = IF everSession.on
                      THEN [everSession EXCEPT !.ids = @ \cup DOMAIN sessions']
                      ELSE everSession

----------------------------------------------------------------------------
(* proxy/server.rs: the routing decision as the next request sees it *)

NoSid == [some |-> FALSE, val |-> <<>>]
SomeSid(s) == [some |-> TRUE, val |-> s]

NoRoute == [valid |-> FALSE, sid |-> <<>>, acc |-> NoAccount, mo |-> NoModel,
            existing |-> FALSE, upsert |-> "none"]

InFlight == {"lookup", "account", "active", "upsert", "mapping", "key", "activity"}
Decided == {"key", "activity"}

\* a statement of a command has written to the store: the decision of the
\* previous request and the request in flight no longer see a fixed store
Disturb ==
    /\ lastRoute' = NoRoute
    /\ req' = IF req.pc \in InFlight
                 THEN [req EXCEPT !.clean = FALSE, !.prev = NoRoute]
                 ELSE [req EXCEPT !.prev = NoRoute]

----------------------------------------------------------------------------
(* commands/mod.rs: the UI commands, one store statement per step *)

\* keys is the key file as the command has loaded it (load_api_keys)
IdleCmd == [op |-> "idle", pc |-> "idle", id |-> NoAccount, sid |-> <<>>,
            mo |-> NoModel, res |-> "none", was |-> NoAccount, keys |-> {}]

NewCmd(op, pc, id) == [op |-> op, pc |-> pc, id |-> id, sid |-> <<>>,
                       mo |-> NoModel, res |-> "none", was |-> NoAccount,
                       keys |-> {}]

CmdFree(c) == cmd[c].pc \in {"idle", "done"}

\* the command returns: the slot keeps its result only
Finish(c, result) ==
    cmd' = [cmd EXCEPT ![c] = [IdleCmd EXCEPT !.pc = "done", !.res = result]]

Goto(c, label) ==
    cmd' = [cmd EXCEPT ![c] = [@ EXCEPT !.pc = label]]

\* create_account: Account::new (fresh id, is_active = false), then the INSERT
CreateAccountInsert(c) ==
    /\ CmdFree(c)
    /\ nextId < MaxAccounts
    /\ nextId' = nextId + 1
    /\ accounts' = InsertAccount(accounts, nextId + 1, FALSE)
    /\ cmd' = [cmd EXCEPT ![c] = NewCmd("create", "savekey", nextId + 1)]
    /\ Disturb
    /\ UNCHANGED <<apiKeys, sessVars, envTodo, usageVars, fnVars>>

\* Database::create_account: save_api_key, when no other command touches
\* the key file between its load_api_keys and its save_api_keys
CreateAccountSaveKey(c) ==
    /\ cmd[c].op = "create" /\ cmd[c].pc = "savekey"
    /\ apiKeys' = apiKeys \cup {cmd[c].id}
    /\ Goto(c, "count")
    /\ Disturb
    /\ UNCHANGED <<accounts, nextId, sessVars, envTodo, usageVars, fnVars>>

\* save_api_key and delete_api_key, first statement: load_api_keys reads
\* the whole file; nothing locks the file
LoadKeys(c) ==
    /\ cmd[c].pc \in {"savekey", "delkey"}
    /\ cmd' = [cmd EXCEPT ![c].pc = IF @ = "savekey" THEN "writekey" ELSE "delwrite",
                          ![c].keys = apiKeys]
    /\ UNCHANGED <<acctVars, sessVars, envTodo, routeVars, usageVars, fnVars>>

\* Database::create_account: self.save_api_key(..)? when the key file cannot
\* be read or parsed; the command returns the error, the row stays
CreateAccountKeysFail(c) ==
    /\ cmd[c].op = "create" /\ cmd[c].pc = "savekey"
    /\ Finish(c, "err")
    /\ UNCHANGED <<acctVars, sessVars, envTodo, routeVars, usageVars, fnVars>>

\* save_api_key: keys[account_id] = api_key; save_api_keys writes the whole
\* file from what was loaded
CreateAccountWriteKeys(c) ==
    /\ cmd[c].op = "create" /\ cmd[c].pc = "writekey"
    /\ apiKeys' = cmd[c].keys \cup {cmd[c].id}
    /\ cmd' = [cmd EXCEPT ![c].pc = "count", ![c].keys = {}]
    /\ Disturb
    /\ UNCHANGED <<accounts, nextId, sessVars, envTodo, usageVars, fnVars>>

\* create_account: get_accounts(); the first account is activated
CreateAccountCount(c) ==
    /\ cmd[c].op = "create" /\ cmd[c].pc = "count"
    /\ IF Cardinality(DOMAIN accounts) = 1
          THEN Goto(c, "clear")
          ELSE Finish(c, "ok")
    /\ UNCHANGED <<acctVars, sessVars, envTodo, routeVars, usageVars, fnVars>>

\* switch_account(account_id): the command starts; any id may be passed
SwitchAccountStart(c) ==
    /\ CmdFree(c)
    /\ \E id \in (1..nextId) \cup {NoAccount} :
          cmd' = [cmd EXCEPT ![c] = NewCmd("switch", "clear", id)]
    /\ UNCHANGED <<acctVars, sessVars, envTodo, routeVars, usageVars, fnVars>>

\* Database::switch_account, first statement; was is history, kept where
\* everSession.switches asks for it: an account that was active when the
\* statement ran
SwitchClear(c) ==
    /\ cmd[c].op \in {"switch", "create"} /\ cmd[c].pc = "clear"
    /\ accounts' = ClearActive(accounts)
    /\ cmd' = [cmd EXCEPT ![c].pc = "set",
                          ![c].was = IF ~everSession.switches \/ ActiveIds(accounts) = {}
                                        THEN NoAccount
                                     ELSE CHOOSE a \in ActiveIds(accounts) : TRUE]
    /\ Disturb
    /\ UNCHANGED <<apiKeys, nextId, sessVars, envTodo, usageVars, fnVars>>

\* Database::switch_account, second statement; Ok(()) whatever it matched
SwitchSet(c) ==
    /\ cmd[c].op \in {"switch", "create"} /\ cmd[c].pc = "set"
    /\ accounts' = SetActive(accounts, cmd[c].id)
    /\ IF cmd[c].op = "switch" THEN Goto(c, "verify") ELSE Finish(c, "ok")
    /\ Disturb
    /\ UNCHANGED <<apiKeys, nextId, sessVars, envTodo, usageVars, fnVars>>

\* switch_account: get_active_account() must find a row, then the settings
\* file is rewritten (an external collaborator that may fail)
SwitchVerify(c) ==
    /\ cmd[c].op = "switch" /\ cmd[c].pc = "verify"
    /\ IF ActiveIds(accounts) = {}
          THEN Finish(c, "err")
          ELSE \E settingsOk \in BOOLEAN :
                  Finish(c, IF settingsOk THEN "ok" ELSE "err")
    /\ UNCHANGED <<acctVars, sessVars, envTodo, routeVars, usageVars, fnVars>>

\* delete_account(account_id): the DELETE, which cascades into session_config
DeleteAccountStart(c) ==
    /\ CmdFree(c)
    /\ \E id \in (1..nextId) \cup {NoAccount} :
          /\ accounts' = DeleteAccountRow(accounts, id)
          /\ sessions' = CascadeSessions(sessions, id)
          /\ usageLog' = {u \in usageLog : u.account_id # id}
          /\ cmd' = [cmd EXCEPT ![c] = NewCmd("delete", "delkey", id)]
    /\ Disturb
    /\ UNCHANGED <<apiKeys, nextId, mappings, envTodo, everSession, fnVars>>

\* delete_api_key: obj.remove(account_id); save_api_keys writes the whole
\* file from what was loaded; delete_account returns Ok
DeleteAccountWriteKeys(c) ==
    /\ cmd[c].op = "delete" /\ cmd[c].pc = "delwrite"
    /\ apiKeys' = cmd[c].keys \ {cmd[c].id}
    /\ Finish(c, "ok")
    /\ Disturb
    /\ UNCHANGED <<accounts, nextId, sessVars, envTodo, usageVars, fnVars>>

\* Database::delete_account: delete_api_key, when no other command touches
\* the key file between its load_api_keys and its save_api_keys
DeleteAccountKey(c) ==
    /\ cmd[c].op = "delete" /\ cmd[c].pc = "delkey"
    /\ apiKeys' = apiKeys \ {cmd[c].id}
    /\ Finish(c, "ok")
    /\ Disturb
    /\ UNCHANGED <<accounts, nextId, sessVars, envTodo, usageVars, fnVars>>

\* set_session_config(session_id, account_id, model_override): get_account
SetSessionConfigStart(c) ==
    /\ CmdFree(c)
    /\ \E sid \in ConfigKeys, id \in (1..nextId) \cup {NoAccount},
          mo \in Models \cup {NoModel} :
          cmd' = [cmd EXCEPT ![c] =
                    IF id \in DOMAIN accounts
                       THEN [NewCmd("setsession", "upsert", id)
                                EXCEPT !.sid = sid, !.mo = mo]
                       ELSE [IdleCmd EXCEPT !.pc = "done", !.res = "err"]]
    /\ UNCHANGED <<acctVars, sessVars, envTodo, routeVars, usageVars, fnVars>>

\* set_session_config: upsert_session_config; the foreign key rejects a
\* row that names an account deleted since the check
SetSessionConfigUpsert(c) ==
    /\ cmd[c].op = "setsession" /\ cmd[c].pc = "upsert"
    /\ IF cmd[c].id \in DOMAIN accounts
          THEN /\ sessions' = UpsertSession(sessions, cmd[c].sid, cmd[c].id, cmd[c].mo)
               /\ Finish(c, "ok")
          ELSE /\ sessions' = sessions
               /\ Finish(c, "err")
    /\ Remember
    /\ Disturb
    /\ UNCHANGED <<acctVars, mappings, envTodo, usageLog, fnVars>>

\* delete_session_config(session_id)
DeleteSessionConfig(c) ==
    /\ CmdFree(c)
    /\ \E sid \in DOMAIN sessions :
          /\ sessions' = DeleteSessionRow(sessions, sid)
          /\ Finish(c, "ok")
    /\ Disturb
    /\ UNCHANGED <<acctVars, mappings, envTodo, usageVars, fnVars>>

----------------------------------------------------------------------------
(* proxy/server.rs, proxy_handler: the session id of a request *)

\* a header of the inbound request: absent, present with bytes that
\* HeaderValue::to_str rejects, or present with readable text
AbsentV == [kind |-> "absent", val |-> <<>>]
OpaqueV == [kind |-> "opaque", val |-> <<>>]
TextV(s) == [kind |-> "text", val |-> s]

Texts == UNION {[1..n -> Chars] : n \in 0..MaxValLen}
HeaderValues == {AbsentV, OpaqueV} \cup {TextV(s) : s \in Texts}
Headers == [xsid : HeaderValues, xrid : HeaderValues, sentry : HeaderValues]

\* s.split('-').next(): the part before the first '-', the whole when there is none
RECURSIVE BeforeDash(_)
BeforeDash(s) ==
    IF s = <<>> \/ Head(s) = "-" THEN <<>> ELSE <<Head(s)>> \o BeforeDash(Tail(s))

DeriveSessionIdRetry(h) ==
    IF h.xsid.kind = "text" THEN SomeSid(h.xsid.val)
    ELSE IF h.xrid.kind = "text" THEN SomeSid(h.xrid.val)
    ELSE IF h.sentry.kind = "text" THEN SomeSid(BeforeDash(h.sentry.val))
    ELSE NoSid

\* get("x-session-id").or_else(|| get("x-request-id")).and_then(to_str().ok())
\*     .or_else(|| get("sentry-trace").and_then(to_str().ok()).and_then(split('-').next()))
DeriveSessionId(h) ==
    LET first == IF h.xsid.kind # "absent" THEN h.xsid ELSE h.xrid
    IN  IF first.kind = "text" THEN SomeSid(first.val)
        ELSE IF h.sentry.kind = "text" THEN SomeSid(BeforeDash(h.sentry.val))
        ELSE NoSid

NoHeaders == [xsid |-> AbsentV, xrid |-> AbsentV, sentry |-> AbsentV]

\* the headers the client of a run sends with its requests: they derive no
\* session id, the session id "a", or the empty session id
RouteHeaders ==
    {NoHeaders,
     [NoHeaders EXCEPT !.xrid = TextV(<<"a">>)],
     [NoHeaders EXCEPT !.sentry = TextV(<<"-">>)]}

DeriveStep ==
    /\ ~sidOut.done
    /\ sidOut' = [done |-> TRUE, sid |-> DeriveSessionId(hdr)]
    /\ UNCHANGED <<storeVars, usageVars, stopVars, streamVars, hdr, authVars, relayVars, pipeVars, taskVars>>

----------------------------------------------------------------------------
(* proxy/server.rs, proxy_handler: routing (one store call per step).       *)
(* Every store call may fail; the handler turns the error into a status or  *)
(* swallows it, as the code at that call does.                              *)

IdleReq == [pc |-> "idle", sid |-> NoSid, acc |-> NoAccount, mo |-> NoModel,
            existing |-> FALSE, status |-> 0, upsert |-> "none",
            lookupErr |-> FALSE, fault |-> FALSE, clean |-> TRUE,
            prev |-> NoRoute]

FailAs500(code) == req' = [IdleReq EXCEPT !.pc = "failed", !.status = 500]

\* the handler returns an error status: ok_or(code), or a missing key
Fail(code) == req' = [IdleReq EXCEPT !.pc = "failed", !.status = code]

FailStoreAs503 ==
    req' = [IdleReq EXCEPT !.pc = "failed", !.status = 503, !.fault = TRUE]

\* the handler returns on a store error: map_err(|_| INTERNAL_SERVER_ERROR)?
FailStore ==
    req' = [IdleReq EXCEPT !.pc = "failed", !.status = 500, !.fault = TRUE]

\* routing is over: the request goes on to the upstream with its session id
\* and account; failed tells whether the last bookkeeping call failed
Routed(failed) ==
    req' = [IdleReq EXCEPT !.pc = "routed", !.sid = req.sid, !.acc = req.acc,
                           !.upsert = req.upsert, !.fault = failed]

\* the decision (account, model_override, is_existing_session) is returned
Decide(r) ==
    lastRoute' = IF r.clean /\ r.sid.some
                    THEN [valid |-> TRUE, sid |-> r.sid.val, acc |-> r.acc,
                          mo |-> r.mo, existing |-> r.existing, upsert |-> r.upsert]
                    ELSE NoRoute

ReqStart ==
    /\ req.pc \in {"idle", "routed", "failed", "logged"}
    /\ LET sid == DeriveSessionId(hdr) IN
          req' = [IdleReq EXCEPT
                    !.pc = IF sid.some THEN "lookup" ELSE "active",
                    !.sid = sid,
                    !.prev = IF lastRoute.valid /\ sid.some /\ lastRoute.sid = sid.val
                                THEN lastRoute ELSE NoRoute]
    /\ lastRoute' = NoRoute
    /\ UNCHANGED <<acctVars, sessVars, envTodo, cmd, usageVars, fnVars>>

\* if let Ok(Some(config)) = get_session_config(sid) ... else (new session)
ReqGetSessionConfig ==
    /\ req.pc = "lookup"
    /\ \E ok \in BOOLEAN :
          IF ok /\ req.sid.val \in DOMAIN sessions
             THEN req' = [req EXCEPT !.pc = "account",
                            !.acc = sessions[req.sid.val].account_id,
                            !.mo = sessions[req.sid.val].model_override]
             ELSE req' = [req EXCEPT !.pc = "active", !.lookupErr = ~ok,
                                     !.fault = ~ok]
    /\ UNCHANGED <<acctVars, sessVars, envTodo, cmd, lastRoute, usageVars, fnVars>>

\* get_account(&config.account_id): Err -> 500, None -> 503
ReqGetAccount ==
    /\ req.pc = "account"
    /\ \E ok \in BOOLEAN :
          IF ~ok THEN FailStore /\ UNCHANGED lastRoute
          ELSE IF req.acc \notin DOMAIN accounts THEN Fail(503) /\ UNCHANGED lastRoute
          ELSE /\ req' = [req EXCEPT !.pc = "key", !.existing = TRUE]
               /\ Decide(req')
    /\ UNCHANGED <<acctVars, sessVars, envTodo, cmd, usageVars, fnVars>>

\* get_active_account(): Err -> 500, None -> 503; fetch_optional yields one
\* of the rows with is_active = 1
ReqGetActiveAccount ==
    /\ req.pc = "active"
    /\ \E ok \in BOOLEAN :
          IF ~ok THEN FailStore /\ UNCHANGED lastRoute
          ELSE IF ActiveIds(accounts) = {} THEN Fail(503) /\ UNCHANGED lastRoute
          ELSE \E a \in ActiveIds(accounts) :
                  IF req.sid.some
                     THEN /\ req' = [req EXCEPT !.pc = "upsert", !.acc = a,
                                                 !.fault = FALSE]
                          /\ UNCHANGED lastRoute
                     ELSE /\ req' = [req EXCEPT !.pc = "key", !.acc = a,
                                                 !.fault = FALSE]
                          /\ Decide(req')
    /\ UNCHANGED <<acctVars, sessVars, envTodo, cmd, usageVars, fnVars>>

\* let _ = upsert_session_config(sid, &acc.id, None): the error is ignored;
\* the foreign key rejects the row when the account is gone
ReqUpsertSession ==
    /\ req.pc = "upsert"
    /\ \E ok \in BOOLEAN :
          LET done == ok /\ req.acc \in DOMAIN accounts
              nxt == [req EXCEPT !.pc = IF envTodo THEN "mapping" ELSE "key",
                                 !.upsert = IF done THEN "ok" ELSE "failed",
                                 !.fault = ~ok]
          IN  /\ sessions' = IF done
                                THEN UpsertSession(sessions, req.sid.val, req.acc, NoModel)
                                ELSE sessions
              /\ req' = nxt
              /\ IF envTodo THEN UNCHANGED lastRoute ELSE Decide(nxt)
    /\ Remember
    /\ UNCHANGED <<acctVars, mappings, envTodo, cmd, usageLog, fnVars>>

\* save_threadcast_mapping(sid, todo_id, mission_id) when THREADCAST_TODO_ID
\* is set: INSERT OR REPLACE; a failure is logged
ReqSaveMapping ==
    /\ req.pc = "mapping"
    /\ \E ok \in BOOLEAN :
          /\ mappings' = IF ok THEN mappings \cup {req.sid.val} ELSE mappings
          /\ req' = [req EXCEPT !.pc = "key", !.fault = ~ok]
    /\ Decide(req')
    /\ UNCHANGED <<acctVars, sessions, envTodo, cmd, usageVars, fnVars>>

\* get_api_key(&account.id): a missing entry or an unreadable vault -> 500
ReqGetApiKey ==
    /\ req.pc = "key"
    /\ \E ok \in BOOLEAN :
          IF ~ok THEN FailStore
          ELSE IF req.acc \notin apiKeys THEN Fail(500)
          ELSE IF req.existing
                  THEN req' = [req EXCEPT !.pc = "activity", !.fault = FALSE]
                  ELSE Routed(FALSE)
    /\ UNCHANGED <<acctVars, sessVars, envTodo, cmd, lastRoute, usageVars, fnVars>>

\* let _ = update_session_activity(sid, last_message): it writes
\* last_activity_at and last_message only, neither of which routing reads;
\* the error is ignored
ReqUpdateActivity ==
    /\ req.pc = "activity"
    /\ \E ok \in BOOLEAN : Routed(~ok)
    /\ UNCHANGED <<acctVars, sessVars, envTodo, cmd, lastRoute, usageVars, fnVars>>

\* the stream closure, on a chunk that carries usage: a detached task calls
\* log_usage(account_id, model, .., session_id) unless the semaphore has no
\* permit left; the insert fails on a store error and when the account row
\* is gone (foreign key); the error is logged. insert_failed is history:
\* the request's insert of its session row had failed.
ReqLogUsage ==
    /\ req.pc = "routed"
    /\ \E permit \in BOOLEAN, ok \in BOOLEAN :
          usageLog' = IF permit /\ ok /\ req.acc \in DOMAIN accounts
                         THEN usageLog \cup
                                {[account_id |-> req.acc, session_id |-> req.sid,
                                  insert_failed |-> req.upsert = "failed"]}
                         ELSE usageLog
    /\ req' = [req EXCEPT !.pc = "logged"]
    /\ UNCHANGED <<acctVars, sessVars, envTodo, cmd, lastRoute, everSession, fnVars>>

----------------------------------------------------------------------------
(* proxy/server.rs, proxy_handler: the headers of the upstream request *)

AuthNames == {"x-api-key", "authorization"}
Excluded == {"host", "content-length", "connection", "transfer-encoding",
             "accept-encoding"}
InboundNames == AuthNames \cup {"host", "user-agent"}
InboundValues == {TextV(<<"a">>), OpaqueV}
InboundHeader == [name : InboundNames, val : InboundValues]

\* account.base_url as a sequence of fragments; the stored key as text
BaseUrls == {<<"https://", "api.anthropic.com">>,
             <<"https://", "open.bigmodel.cn", "/api/anthropic">>,
             <<"https://", "gw.local", "/", "api.anthropic.com">>}
StoredKeys == {<<>>, <<"k">>}

AuthInputs ==
    [headers : UNION {[1..n -> InboundHeader] : n \in 0..MaxHeaders},
     base_url : BaseUrls, api_key : StoredKeys]

\* account.base_url.contains("api.anthropic.com")
Contains(url, part) == \E i \in DOMAIN url : url[i] = part

ForwardHeadersKeepsAuth(hs, is_anthropic) ==
    SelectSeq(hs, LAMBDA h : h.name \notin Excluded /\ h.val.kind = "text")

\* for (key, value) in original_headers.iter() { match key { ... } }
ForwardHeaders(hs, is_anthropic) ==
    SelectSeq(hs, LAMBDA h :
        IF h.name \in Excluded THEN FALSE
        ELSE IF h.name \in AuthNames THEN is_anthropic /\ h.val.kind = "text"
        ELSE h.val.kind = "text")

\* ... then: if !is_anthropic && !api_key.is_empty() { header("x-api-key", &api_key) }
OutboundHeaders(in) ==
    LET is_anthropic == Contains(in.base_url, "api.anthropic.com")
    IN  ForwardHeaders(in.headers, is_anthropic)
        \o (IF ~is_anthropic /\ in.api_key # <<>>
               THEN <<[name |-> "x-api-key", val |-> TextV(in.api_key)]>>
               ELSE <<>>)

AuthIdle ==
    /\ authIn = [headers |-> <<>>, base_url |-> <<>>, api_key |-> <<>>]
    /\ authOut = [done |-> TRUE, headers |-> <<>>]

BuildStep ==
    /\ ~authOut.done
    /\ authOut' = [done |-> TRUE, headers |-> OutboundHeaders(authIn)]
    /\ UNCHANGED <<storeVars, usageVars, stopVars, streamVars, sidVars, authIn, relayVars, pipeVars, taskVars>>

----------------------------------------------------------------------------
(* proxy/server.rs, proxy_handler: the response relay (body_stream.map) *)

\* what the upstream stream yields: an error, or a chunk of bytes that is or
\* is not UTF-8 and in which the scanners find a tool use, a text delta or a
\* usage record
ErrChunk == [ok |-> FALSE, utf8 |-> FALSE, tool |-> FALSE, text |-> FALSE, usage |-> FALSE]
BinaryChunk == [ok |-> TRUE, utf8 |-> FALSE, tool |-> FALSE, text |-> FALSE, usage |-> FALSE]
PlainChunk == [ok |-> TRUE, utf8 |-> TRUE, tool |-> FALSE, text |-> FALSE, usage |-> FALSE]
ToolChunk == [ok |-> TRUE, utf8 |-> TRUE, tool |-> TRUE, text |-> FALSE, usage |-> FALSE]
TextChunk == [ok |-> TRUE, utf8 |-> TRUE, tool |-> FALSE, text |-> TRUE, usage |-> FALSE]
UsageChunk == [ok |-> TRUE, utf8 |-> TRUE, tool |-> FALSE, text |-> TRUE, usage |-> TRUE]
Chunks == {ErrChunk, BinaryChunk, PlainChunk, ToolChunk, TextChunk, UsageChunk}
Streams == UNION {[1..n -> Chunks] : n \in 0..MaxChunks}

\* the tokio::spawn calls of the closure for one chunk
Spawned(chunk, logging) ==
    IF ~(chunk.ok /\ chunk.utf8) THEN {}
    ELSE (IF chunk.tool THEN {"process_tool_use"} ELSE {})
         \cup (IF chunk.text THEN {"append_text", "process_text"} ELSE {})
         \cup (IF chunk.usage
                  THEN {"set_tokens", "complete_current_step", "log_usage"}
                       \cup (IF logging THEN {"trigger_hooks"} ELSE {})
                  ELSE {})

MapChunkLossy(chunk) ==
    IF chunk.ok /\ ~chunk.utf8 THEN PlainChunk ELSE chunk

\* the value of the closure: chunk_result itself
MapChunk(chunk) == chunk

RelayIdle ==
    /\ upstream = <<>>
    /\ received = <<>>
    /\ delivered = <<>>
    /\ tasks = {}
    /\ apiLog = TRUE

\* the stream yields its next item; the closure scans it, spawns the
\* detached tasks and returns it to the client body
ChunkArrives ==
    /\ upstream # <<>>
    /\ LET chunk == Head(upstream)
           n == Len(received) + 1
       IN  /\ received' = Append(received, chunk)
           /\ delivered' = Append(delivered, MapChunk(chunk))
           /\ tasks' = tasks \cup {[chunk |-> n, job |-> j] : j \in Spawned(chunk, apiLog)}
    /\ upstream' = Tail(upstream)
    /\ UNCHANGED <<storeVars, usageVars, stopVars, streamVars, sidVars, authVars, apiLog, pipeVars, taskVars>>

\* a detached task runs to its end, whenever the runtime schedules it
TaskFinishes ==
    /\ \E t \in tasks : tasks' = tasks \ {t}
    /\ UNCHANGED <<storeVars, usageVars, stopVars, streamVars, sidVars, authVars, upstream, received, delivered,
                   apiLog, pipeVars, taskVars>>

----------------------------------------------------------------------------
(* proxy/server.rs, proxy_handler: the steps of one request between routing *)
(* and the upstream call                                                     *)

NoHooks == [some |-> FALSE, api_logging_enabled |-> TRUE,
            compaction_injection_enabled |-> FALSE, custom_tasks_enabled |-> TRUE]
SomeHooks ==
    [some : {TRUE}, api_logging_enabled : BOOLEAN,
     compaction_injection_enabled : BOOLEAN, custom_tasks_enabled : BOOLEAN]

\* what the body of a request carries: no text in a last message of role
\* user, a text without a '>>swiftcast <name>' directive, or a directive
\* naming list, reload, a task of tasks.json, or a task that is not there
Directives == {"list", "reload", "known", "unknown"}
Messages == {"no_user_text", "no_directive"} \cup Directives

\* try_intercept(ctx).intercepted
InterceptedKnownOnly(message) == message \in {"list", "reload", "known"}
Intercepted(message) == message \in Directives

\* the inputs of a request: whether it has a session id, the outcome of
\* get_session_hooks, what the body carries, the registry's enable flag,
\* the injector's CompactionConfig.enabled (the global
\* compaction_injection_enabled setting read at start), whether the upstream
\* call succeeds
PipeInputs ==
    [pc : {"load"}, has_sid : BOOLEAN, stored : SomeHooks \cup {NoHooks},
     load_ok : BOOLEAN, message : Messages, registry_enabled : BOOLEAN,
     send_ok : BOOLEAN, session_hooks : {NoHooks}, status : {0},
     content_type : {"none"}, config_enabled : BOOLEAN, injected : {FALSE}]

PipeIdle ==
    /\ pipe = [pc |-> "idle", has_sid |-> FALSE, stored |-> NoHooks,
               load_ok |-> TRUE, message |-> "no_directive",
               registry_enabled |-> TRUE, send_ok |-> TRUE,
               session_hooks |-> NoHooks, status |-> 0, content_type |-> "none",
               config_enabled |-> FALSE, injected |-> FALSE]
    /\ events = <<>>

PipeUnchanged == UNCHANGED <<storeVars, usageVars, stopVars, streamVars, sidVars, authVars, relayVars, taskVars>>

\* session_hooks = if let Some(sid) { get_session_hooks(sid).await.ok().flatten() } else { None }
PipeLoadHooks ==
    /\ pipe.pc = "load"
    /\ pipe' = [pipe EXCEPT !.pc = "intercept",
                  !.session_hooks = IF pipe.has_sid /\ pipe.load_ok
                                       THEN pipe.stored ELSE NoHooks]
    /\ UNCHANGED events
    /\ PipeUnchanged

\* custom_tasks_enabled (default true): try_intercept; an intercepted request
\* is answered with the synthesized SSE body and the handler returns
PipeIntercept ==
    /\ pipe.pc = "intercept"
    /\ LET enabled == IF pipe.session_hooks.some
                         THEN pipe.session_hooks.custom_tasks_enabled ELSE TRUE
       IN  /\ events' = IF enabled THEN Append(events, "intercept") ELSE events
           /\ pipe' = IF enabled /\ Intercepted(pipe.message)
                         THEN [pipe EXCEPT !.pc = "answered", !.status = 200,
                                           !.content_type = "text/event-stream"]
                         ELSE [pipe EXCEPT !.pc = "before"]
    /\ PipeUnchanged

\* api_logging_enabled (default true): trigger_request_before, which
\* dispatches unless the registry is disabled
PipeRequestBefore ==
    /\ pipe.pc = "before"
    /\ LET enabled == IF pipe.session_hooks.some
                         THEN pipe.session_hooks.api_logging_enabled ELSE TRUE
       IN  events' = IF enabled /\ pipe.registry_enabled
                        THEN Append(events, "request_before") ELSE events
    /\ pipe' = [pipe EXCEPT !.pc = "modify"]
    /\ PipeUnchanged

\* compaction_injection_enabled (default false): apply_request_modifications,
\* which runs the modify hooks unless the registry is disabled; the
\* compaction injector returns at once unless its config is enabled
PipeModify ==
    /\ pipe.pc = "modify"
    /\ LET enabled == IF pipe.session_hooks.some
                         THEN pipe.session_hooks.compaction_injection_enabled ELSE FALSE
       IN  /\ events' = IF enabled /\ pipe.registry_enabled
                           THEN Append(events, "modify") ELSE events
           /\ pipe' = [pipe EXCEPT !.pc = "send",
                         !.injected = /\ enabled /\ pipe.registry_enabled
                                      /\ pipe.config_enabled]
    /\ PipeUnchanged

\* request_builder.send(): an error is answered with 502
PipeSend ==
    /\ pipe.pc = "send"
    /\ events' = Append(events, "upstream")
    /\ pipe' = IF pipe.send_ok
                  THEN [pipe EXCEPT !.pc = "streaming"]
                  ELSE [pipe EXCEPT !.pc = "failed", !.status = 502]
    /\ PipeUnchanged

\* the stream closure of the upstream response: a chunk that carries usage
\* spawns log_usage, which writes the usage-log row of the request
PipeLogUsage ==
    /\ pipe.pc = "streaming"
    /\ \E usage \in BOOLEAN :
          events' = IF usage THEN Append(events, "log_usage") ELSE events
    /\ pipe' = [pipe EXCEPT !.pc = "streamed"]
    /\ PipeUnchanged

----------------------------------------------------------------------------
(* The command interceptor: the synthesized SSE response                    *)
(* (hooks/custom_task.rs, generate_sse_response)                            *)

MaxTextLen == 101     \* longest response text, in code points
ChunkSize == 50       \* let chunk_size = 50

\* the response texts: the plain code point "a", with at most one of the
\* code points that serde_json writes as an escape
SseTexts ==
    UNION {{[i \in 1..n |-> "a"]} \cup
           {[i \in 1..n |-> IF i = p THEN c ELSE "a"] :
               p \in 1..n, c \in {"quote", "backslash", "newline"}} :
           n \in 0..MaxTextLen}

\* serde_json::to_string(&chunk_text) without its surrounding quotes
RECURSIVE EscapeJson(_)
EscapeJson(t) ==
    IF t = <<>> THEN <<>>
    ELSE (CASE Head(t) = "quote" -> <<"backslash", "quote">>
            [] Head(t) = "backslash" -> <<"backslash", "backslash">>
            [] Head(t) = "newline" -> <<"backslash", "n">>
            [] OTHER -> <<Head(t)>>) \o EscapeJson(Tail(t))

\* text.chars().collect::<Vec<_>>().chunks(chunk_size)
TextChunksWhole(t) == IF t = <<>> THEN <<>> ELSE <<t>>
RECURSIVE TextChunks(_)
TextChunks(t) ==
    IF t = <<>> THEN <<>>
    ELSE IF Len(t) <= ChunkSize THEN <<t>>
    ELSE <<SubSeq(t, 1, ChunkSize)>> \o TextChunks(SubSeq(t, ChunkSize + 1, Len(t)))

\* the events of the response body, in the order they are pushed
GenerateSseResponse(text) ==
    LET chunks == TextChunks(text)
        SseEvent(type, delta, stop_reason) ==
            [type |-> type, text |-> delta, stop_reason |-> stop_reason]
    IN  <<SseEvent("message_start", <<>>, "null"),
          SseEvent("content_block_start", <<>>, "none")>>
        \o [i \in 1..Len(chunks) |->
              SseEvent("content_block_delta", EscapeJson(chunks[i]), "none")]
        \o <<SseEvent("content_block_stop", <<>>, "none"),
             SseEvent("message_delta", <<>>, "null"),
             SseEvent("message_stop", <<>>, "none")>>

SseIdle == sse = [pc |-> "idle", text |-> <<>>, out |-> <<>>]

GenerateStep ==
    /\ sse.pc = "text"
    /\ sse' = [sse EXCEPT !.pc = "done", !.out = GenerateSseResponse(sse.text)]
    /\ UNCHANGED <<storeVars, usageVars, stopVars, streamVars, sidVars, authVars, relayVars, pipeVars, parse>>

----------------------------------------------------------------------------
(* The command interceptor: the directive of a user message                 *)
(* (hooks/custom_task.rs, parse_task_command)                               *)

MaxTailLen == 4       \* longest text after the pattern, in characters

\* let patterns = [">>swiftcast "]
Pattern == <<">", ">", "s", "w", "i", "f", "t", "c", "a", "s", "t", " ">>

\* the user messages: a text of spaces and letters, alone or after the
\* pattern, with or without words before the pattern
ParseMessages ==
    LET tails == UNION {[1..n -> {" ", "a", "b"}] : n \in 0..MaxTailLen}
    IN  tails \cup {pre \o Pattern \o t : pre \in {<<>>, <<"h", " ">>}, t \in tails}

\* message.find(pattern): the index of the first occurrence, 0 for None
FindPattern(m) ==
    LET at == {i \in 1..(Len(m) - Len(Pattern) + 1) :
                  SubSeq(m, i, i + Len(Pattern) - 1) = Pattern}
    IN  IF at = {} THEN 0 ELSE CHOOSE i \in at : \A j \in at : i <= j

\* the number of whitespace characters a text begins with
RECURSIVE LeadingSpaces(_)
LeadingSpaces(t) ==
    IF t = <<>> \/ Head(t) # " " THEN 0 ELSE 1 + LeadingSpaces(Tail(t))

\* after.split_whitespace().next(): the first word, <<>> for None
FirstToken(t) ==
    LET rest == SubSeq(t, LeadingSpaces(t) + 1, Len(t))
        stops == {i \in 1..Len(rest) : rest[i] = " "}
        end == IF stops = {} THEN Len(rest)
               ELSE (CHOOSE i \in stops : \A j \in stops : i <= j) - 1
    IN  SubSeq(rest, 1, end)

\* str::trim
RECURSIVE Trim(_)
Trim(t) ==
    IF t = <<>> THEN <<>>
    ELSE IF Head(t) = " " THEN Trim(Tail(t))
    ELSE IF t[Len(t)] = " " THEN Trim(SubSeq(t, 1, Len(t) - 1))
    ELSE t

NoCommand == [some |-> FALSE, name |-> <<>>, args |-> <<>>]

\* parse_task_command(message): the arguments are cut from `after` at the
\* length of the task name
ParseTaskCommand(m) ==
    LET pos == FindPattern(m)
        after == SubSeq(m, pos + Len(Pattern), Len(m))
        task_name == FirstToken(after)
    IN  IF pos = 0 \/ task_name = <<>> THEN NoCommand
        ELSE [some |-> TRUE, name |-> task_name,
              args |-> Trim(SubSeq(after, Len(task_name) + 1, Len(after)))]

ParseIdle == parse = [pc |-> "idle", message |-> <<>>, result |-> NoCommand]

ParseStep ==
    /\ parse.pc = "message"
    /\ parse' = [parse EXCEPT !.pc = "done", !.result = ParseTaskCommand(parse.message)]
    /\ UNCHANGED <<storeVars, usageVars, stopVars, streamVars, sidVars, authVars, relayVars, pipeVars, sse>>

----------------------------------------------------------------------------
(* Proxy start and stop (commands/mod.rs start_proxy, stop_proxy;           *)
(* proxy/server.rs ProxyServer::start, ProxyServer::stop), for one          *)
(* ProxyServer instance                                                     *)

MaxConns == 3         \* client connections ever attempted
MaxStops == 2         \* calls of stop_proxy

\* state.proxy is None, start has not run; no connection has been attempted
StopIdle ==
    /\ proxy = [slot |-> FALSE, shutdown_tx |-> FALSE, signalled |-> FALSE,
                loop |-> "none", stops |-> 0]
    /\ conns = [waiting |-> 0, inflight |-> 0, completed |-> 0, refused |-> 0]

\* the listener is bound while the task that runs axum::serve holds it
ListenerOpenForever == proxy.loop # "none"
ListenerOpen == proxy.loop = "running"

StopUnchanged ==
    UNCHANGED <<storeVars, usageVars, streamVars, sidVars, authVars, relayVars, pipeVars, taskVars>>

\* start_proxy: refused when the slot is taken; ProxyServer::start creates
\* the oneshot channel, binds the listener and spawns the task that selects
\* between the server and the receiver
StartProxy ==
    /\ ~proxy.slot
    /\ proxy.loop = "none"
    /\ proxy' = [proxy EXCEPT !.slot = TRUE, !.shutdown_tx = TRUE, !.loop = "running"]
    /\ UNCHANGED conns
    /\ StopUnchanged

\* stop_proxy: if let Some(server) = proxy.take() { server.stop() }, and
\* stop: if let Some(tx) = self.shutdown_tx.take() { let _ = tx.send(()) }
StopProxy ==
    /\ proxy.stops < MaxStops
    /\ proxy' = IF proxy.slot
                   THEN [proxy EXCEPT !.slot = FALSE, !.shutdown_tx = FALSE,
                                      !.signalled = @ \/ proxy.shutdown_tx,
                                      !.stops = @ + 1]
                   ELSE [proxy EXCEPT !.stops = @ + 1]
    /\ UNCHANGED conns
    /\ StopUnchanged

\* a client connects: the connection waits in the listener's queue, or is
\* refused when no listener is bound
Connect ==
    /\ conns.waiting + conns.inflight + conns.completed + conns.refused < MaxConns
    /\ conns' = IF ListenerOpen
                   THEN [conns EXCEPT !.waiting = @ + 1]
                   ELSE [conns EXCEPT !.refused = @ + 1]
    /\ UNCHANGED proxy
    /\ StopUnchanged

\* the accept loop of axum::serve: accept a connection and spawn the task
\* that serves it
Accept ==
    /\ ListenerOpen
    /\ conns.waiting > 0
    /\ conns' = [conns EXCEPT !.waiting = @ - 1, !.inflight = @ + 1]
    /\ UNCHANGED proxy
    /\ StopUnchanged

\* select!: the receiver is ready, the server future is dropped with the
\* listener and its queue; the connection tasks are detached and stay
LoopExit ==
    /\ proxy.loop = "running"
    /\ proxy.signalled
    /\ proxy' = [proxy EXCEPT !.loop = "exited"]
    /\ conns' = [conns EXCEPT !.waiting = 0, !.refused = @ + conns.waiting]
    /\ StopUnchanged

\* a connection task serves its request to the end
Complete ==
    /\ conns.inflight > 0
    /\ conns' = [conns EXCEPT !.inflight = @ - 1, !.completed = @ + 1]
    /\ UNCHANGED proxy
    /\ StopUnchanged

----------------------------------------------------------------------------
(* proxy/server.rs, proxy_handler: what the detached tasks of the stream    *)
(* closure do when the runtime runs them                                    *)

\* ResponseBuilder::new and a registry: no text, nothing dispatched
NewBuilder(is_success, hooks_enabled) ==
    [text |-> <<>>, fanout |-> <<>>, is_success |-> is_success,
     hooks_enabled |-> hooks_enabled]

\* StepTracker::new, for a session with or without a ThreadCast mapping;
\* last and stop are history: the tool event and the stop_reason of the
\* task that ran last
NewTracker(has_sid, mapped, current) ==
    [has_sid |-> has_sid, mapped |-> mapped, current |-> current,
     completed |-> <<>>, emitted |-> <<>>,
     last |-> [name |-> "none", command |-> "absent"], stop |-> "none"]

MaxConcurrentDbTasks == 10   \* const MAX_CONCURRENT_DB_TASKS: usize = 10

\* Semaphore::new(MAX_CONCURRENT_DB_TASKS), and no usage-log task yet; the
\* tasks are counted by position: spawned and not yet run (new), holding a
\* permit before log_usage (logging) and before send_usage (hooking),
\* returned without a permit (dropped), run to their end (ended)
NewSem ==
    [permits |-> MaxConcurrentDbTasks, spawned |-> 0, new |-> 0, logging |-> 0,
     hooking |-> 0, dropped |-> 0, ended |-> 0, rows |-> 0, hooks |-> 0]

\* a response of data lines cut into chunks, nothing scanned yet
NewScan(lines, cuts) ==
    [lines |-> lines, cuts |-> cuts, pos |-> 0, out |-> <<>>]

\* no dispatch of the registry in flight
\* at_start and orig are history: the flag and the body when it began
NoDispatch ==
    [pc |-> "idle", kind |-> "none", i |-> 0, body |-> <<>>, modified |-> FALSE,
     at_start |-> TRUE, orig |-> <<>>]

\* HookRegistry::new: no hooks, enabled; calls and result are history: the
\* hook invocations of the last dispatch and what it returned
NewRegistry ==
    [hooks |-> <<>>, modify_hooks |-> <<>>, enabled |-> TRUE, d |-> NoDispatch,
     calls |-> <<>>, result |-> [some |-> FALSE, body |-> <<>>]]

\* a request body with this messages array, try_intercept not yet run
NewIntercept(messages) ==
    [messages |-> messages, done |-> FALSE, intercepted |-> FALSE]

\* a request body by what serde_json makes of it: an object with its
\* top-level model field and the rest of its fields, or no JSON document
\* (empty, or not JSON), or a JSON document that is no object
EmptyBody == [kind |-> "empty", model |-> "absent", rest |-> "none"]

\* a request after routing: its body, the model override of its session,
\* whether a mutating hook will return a replacement; nothing sent yet
NewOverride(body, model_override, hook) ==
    [inbound |-> body, model_override |-> model_override, hook |-> hook,
     pc |-> "override", body |-> body, sent |-> "none"]

\* an Option<String> that is None
NoString == "<none>"

\* CompactionConfig as ProxyServer::start builds it from a fresh config
\* table: injection off, both texts the empty string
DefaultConfig ==
    [enabled |-> FALSE, summarization_instructions |-> "",
     context_injection |-> "", context_providers_enabled |-> TRUE]

\* CompactionInjectorHook with its config; no body modified yet
NewInjector(config) ==
    [config |-> config, body |-> <<>>, fetched |-> NoString,
     pc |-> "idle", some |-> FALSE, out |-> <<>>]

\* QuestionDetector::new: an empty text buffer; no chunk processed yet
NewDetector ==
    [text_buffer |-> <<>>, texts |-> <<>>, detected |-> <<>>, after |-> <<>>]

HookIdle ==
    /\ reg = NewRegistry
    /\ icpt = NewIntercept(<<>>)
    /\ ov = NewOverride(EmptyBody, NoModel, FALSE)
    /\ inj = NewInjector(DefaultConfig)
    /\ qd = NewDetector

UsageIdle == sem = NewSem /\ scan = NewScan(<<>>, {}) /\ HookIdle

StreamIdle ==
    /\ rb = NewBuilder(TRUE, TRUE)
    /\ tracker = NewTracker(TRUE, TRUE, "none")
    /\ UsageIdle

\* rb.append_text(&text_clone): the text of a chunk is pushed on
\* response_text when its task runs; a text is named by its chunk
AppendTextRuns ==
    /\ \E t \in tasks :
          /\ t.job = "append_text"
          /\ rb' = [rb EXCEPT !.text = Append(@, t.chunk)]
          /\ tasks' = tasks \ {t}
    /\ UNCHANGED <<tracker, sem, scan, hookVars, storeVars, usageVars, stopVars, sidVars, authVars, upstream,
                   received, delivered, apiLog, pipeVars, taskVars>>

\* the task spawned for a chunk with usage when api logging is enabled:
\* sleep, build, trigger_request_success or trigger_request_failed,
\* trigger_response_complete, trigger_request_after; each trigger returns at
\* once when the registry is disabled
FanoutRuns ==
    /\ \E t \in tasks :
          /\ t.job = "trigger_hooks"
          /\ rb' = [rb EXCEPT !.fanout =
                      IF rb.hooks_enabled
                         THEN @ \o <<IF rb.is_success THEN "request_success"
                                                      ELSE "request_failed",
                                     "response_complete", "request_after">>
                         ELSE @]
          /\ tasks' = tasks \ {t}
    /\ UNCHANGED <<tracker, sem, scan, hookVars, storeVars, usageVars, stopVars, sidVars, authVars, upstream,
                   received, delivered, apiLog, pipeVars, taskVars>>

----------------------------------------------------------------------------
(* proxy/step_tracker.rs: the phases of a session, and the tasks of the     *)
(* stream closure that drive it                                             *)

\* the tool-use events: a tool name and what its input says of the command
\* ("absent": no input or no command; "keyword": the command, in lower case,
\* contains test, jest, pytest, ...; "plain": it contains none of them)
ToolEvents ==
    {[name |-> n, command |-> "absent"] :
        n \in {"Read", "EnterPlanMode", "Edit", "AskUserQuestion", "Task", "Frobnicate"}}
    \cup {[name |-> "Bash", command |-> c] : c \in {"absent", "plain", "keyword"}}

\* is_test_command(input)
IsTestCommand(ev) == ev.command = "keyword"

\* the step type of process_tool_use: Bash by its command, the others by
\* tool_to_step_type
StepTypeBashVerifies(ev) ==
    IF ev.name \in {"Read", "Glob", "Grep", "WebFetch", "WebSearch"}
       THEN "ANALYSIS"
    ELSE IF ev.name \in {"EnterPlanMode", "ExitPlanMode", "TaskCreate",
                         "TaskUpdate", "TaskList", "TaskGet"}
       THEN "DESIGN"
    ELSE IF ev.name \in {"Edit", "Write", "NotebookEdit"} THEN "IMPLEMENTATION"
    ELSE IF ev.name = "Bash" THEN "VERIFICATION"
    ELSE "none"

StepType(ev) ==
    IF ev.name = "Bash"
       THEN (IF IsTestCommand(ev) THEN "VERIFICATION" ELSE "IMPLEMENTATION")
    ELSE IF ev.name \in {"Read", "Glob", "Grep", "WebFetch", "WebSearch"}
       THEN "ANALYSIS"
    ELSE IF ev.name \in {"EnterPlanMode", "ExitPlanMode", "TaskCreate",
                         "TaskUpdate", "TaskList", "TaskGet"}
       THEN "DESIGN"
    ELSE IF ev.name \in {"Edit", "Write", "NotebookEdit"} THEN "IMPLEMENTATION"
    ELSE "none"

Update(status, step, progress, steps) ==
    [status |-> status, step |-> step, progress |-> progress, steps |-> steps]

\* process_tool_use(sid, name, input), its returned updates appended to
\* emitted (the completed one first, as send_updates sends them)
ProcessToolUse(tr, ev) ==
    LET step_type == StepType(ev)
    IN  IF step_type = "none" THEN tr
        ELSE IF tr.current = step_type
           THEN [tr EXCEPT !.emitted = Append(@, Update("IN_PROGRESS", step_type, 0, <<>>))]
        ELSE [tr EXCEPT
                !.current = step_type,
                !.emitted = @ \o (IF tr.current = "none" THEN <<>>
                                  ELSE <<Update("COMPLETED", tr.current, 100, <<>>)>>)
                              \o <<Update("IN_PROGRESS", step_type, 0, <<>>)>>]

\* complete_current_step(sid)
CompleteCurrentStep(tr) ==
    IF tr.current = "none" THEN tr
    ELSE [tr EXCEPT !.current = "none",
                    !.completed = Append(@, tr.current),
                    !.emitted = Append(@, Update("COMPLETED", tr.current, 100, <<>>))]

\* the task spawned for a chunk with a tool_use block, when it runs
ToolUseRuns ==
    /\ \E t \in tasks, ev \in ToolEvents :
          /\ t.job = "process_tool_use"
          /\ tracker' = [(IF tracker.has_sid THEN ProcessToolUse(tracker, ev)
                                              ELSE tracker) EXCEPT !.last = ev]
          /\ tasks' = tasks \ {t}
    /\ UNCHANGED <<rb, sem, scan, hookVars, storeVars, usageVars, stopVars, sidVars, authVars, upstream,
                   received, delivered, apiLog, pipeVars, taskVars>>

\* the task spawned for a chunk with usage, when it runs:
\* complete_current_step, and for stop_reason end_turn the session-complete
\* webhook with get_completed_steps, sent when the session has a mapping
CompleteRuns ==
    /\ \E t \in tasks, stop_reason \in {"end_turn", "tool_use", "null"} :
          /\ t.job = "complete_current_step"
          /\ LET tr == CompleteCurrentStep(tracker)
             IN  tracker' =
                   [(IF ~tracker.has_sid THEN tracker
                     ELSE IF stop_reason = "end_turn" /\ tracker.mapped
                        THEN [tr EXCEPT !.emitted =
                                Append(@, Update("SESSION_COMPLETE", "none", 0,
                                                 tr.completed))]
                     ELSE tr) EXCEPT !.stop = stop_reason]
          /\ tasks' = tasks \ {t}
    /\ UNCHANGED <<rb, sem, scan, hookVars, storeVars, usageVars, stopVars, sidVars, authVars, upstream,
                   received, delivered, apiLog, pipeVars, taskVars>>

----------------------------------------------------------------------------
(* proxy/server.rs: the usage-log tasks of the stream closure and the       *)
(* DB-task semaphore of the proxy                                           *)

MaxUsageTasks == 11   \* usage-log tasks spawned

SemUnchanged ==
    UNCHANGED <<rb, tracker, scan, hookVars, storeVars, usageVars, stopVars, sidVars, authVars,
                relayVars, pipeVars, taskVars>>

\* sem.try_acquire() in a mutant that hands out a permit it does not have
TryAcquireUnchecked(s) ==
    [s EXCEPT !.new = @ - 1, !.permits = @ - 1, !.logging = @ + 1]

\* let _permit = match sem.try_acquire() { Ok(permit) => permit,
\*                                         Err(_) => { debug!; return; } }
TryAcquire(s) ==
    IF s.permits > 0
       THEN [s EXCEPT !.new = @ - 1, !.permits = @ - 1, !.logging = @ + 1]
       ELSE [s EXCEPT !.new = @ - 1, !.dropped = @ + 1]

\* drop(_permit) at the end of the task
Release(s) == [s EXCEPT !.permits = @ + 1, !.ended = @ + 1]

\* tokio::spawn of the usage-log task, for a chunk with usage
SpawnLogTask ==
    /\ sem.spawned < MaxUsageTasks
    /\ sem' = [sem EXCEPT !.spawned = @ + 1, !.new = @ + 1]
    /\ SemUnchanged

\* the first statement of a usage-log task
LogTaskAcquires ==
    /\ sem.new > 0
    /\ sem' = TryAcquire(sem)
    /\ SemUnchanged

\* db.log_usage(...), its error only logged; a task without session id
\* ends here
LogTaskLogs ==
    /\ sem.logging > 0
    /\ \E ok \in BOOLEAN, has_sid \in BOOLEAN :
          LET s == [sem EXCEPT !.logging = @ - 1,
                               !.rows = IF ok THEN @ + 1 ELSE @]
          IN  sem' = IF has_sid THEN [s EXCEPT !.hooking = @ + 1] ELSE Release(s)
    /\ SemUnchanged

\* sleep, build, webhook.send_usage(...), its result ignored; the task ends
LogTaskSendsUsage ==
    /\ sem.hooking > 0
    /\ sem' = Release([sem EXCEPT !.hooking = @ - 1, !.hooks = @ + 1])
    /\ SemUnchanged

----------------------------------------------------------------------------
(* proxy/server.rs: the SSE scanner, parse_tool_use_from_sse,               *)
(* parse_text_from_sse and parse_usage_from_sse applied to each chunk       *)

MaxLines == 2         \* data lines of a response

\* the data lines of a response: content_block_start of type tool_use,
\* content_block_delta with text, message_delta with usage, and a line
\* that carries none of them (ping, message_start)
DataLines ==
    {[kind |-> "tool_use", arg |-> n] : n \in {"Read", "Edit"}}
      \cup {[kind |-> "text", arg |-> t] : t \in {"a", "b"}}
      \cup {[kind |-> "usage", arg |-> r] : r \in {"end_turn", "tool_use"}}
      \cup {[kind |-> "other", arg |-> "ping"]}

Responses == UNION {[1..n -> DataLines] : n \in 0..MaxLines}

\* a line is two pieces of bytes, the second ends with its newline; the
\* stream of a response is pieces 1..2n and may be cut after any piece but
\* the last
CutPoints(lines) == 1..(2 * Len(lines) - 1)

\* the chunk that carries a piece
ChunkOf(cuts, piece) == 1 + Cardinality({c \in cuts : c < piece})

NumChunks(cuts) == 1 + Cardinality(cuts)

RECURSIVE WholeLines(_, _, _, _)
\* data.lines() of chunk k, of which only the lines that lie whole in the
\* chunk pass strip_prefix("data: ") and serde_json::from_str: the head of
\* a cut line is no JSON value, its tail has no "data: " prefix
WholeLines(lines, cuts, k, i) ==
    IF i > Len(lines) THEN <<>>
    ELSE (IF ChunkOf(cuts, 2 * i - 1) = k /\ ChunkOf(cuts, 2 * i) = k
             THEN <<lines[i]>> ELSE <<>>)
           \o WholeLines(lines, cuts, k, i + 1)

RECURSIVE Concat(_)
Concat(ls) == IF ls = <<>> THEN <<>> ELSE <<Head(ls).arg>> \o Concat(Tail(ls))

OfKind(ls, kind) == SelectSeq(ls, LAMBDA l : l.kind = kind)

\* parse_tool_use_from_sse: returns at the first tool_use block
ParseToolUse(ls) ==
    IF OfKind(ls, "tool_use") = <<>> THEN <<>>
    ELSE <<[kind |-> "ToolUse", arg |-> <<OfKind(ls, "tool_use")[1].arg>>]>>

\* parse_text_from_sse: pushes every delta text on one string
ParseText(ls) ==
    IF OfKind(ls, "text") = <<>> THEN <<>>
    ELSE <<[kind |-> "Text", arg |-> Concat(OfKind(ls, "text"))]>>

\* parse_usage_from_sse: returns at the first usage
ParseUsage(ls) ==
    IF OfKind(ls, "usage") = <<>> THEN <<>>
    ELSE <<[kind |-> "Usage", arg |-> <<OfKind(ls, "usage")[1].arg>>]>>

\* the stream closure on one chunk: tool use, then text, then usage
ScanChunk(ls) == ParseToolUse(ls) \o ParseText(ls) \o ParseUsage(ls)

RECURSIVE ScanFrom(_, _, _)
\* the events of chunks k.. of a response
ScanFrom(lines, cuts, k) ==
    IF k > NumChunks(cuts) THEN <<>>
    ELSE ScanChunk(WholeLines(lines, cuts, k, 1)) \o ScanFrom(lines, cuts, k + 1)

\* the next chunk of the response arrives at the closure
ScanStep ==
    /\ scan.pos < NumChunks(scan.cuts)
    /\ scan' = [scan EXCEPT
                  !.pos = @ + 1,
                  !.out = @ \o ScanChunk(WholeLines(scan.lines, scan.cuts,
                                                     scan.pos + 1, 1))]
    /\ UNCHANGED <<rb, tracker, sem, hookVars, storeVars, usageVars, stopVars, sidVars, authVars,
                   relayVars, pipeVars, taskVars>>

----------------------------------------------------------------------------
(* proxy/hooks/registry.rs: the hook registry *)

MaxHooks == 2         \* hooks of a kind registered

\* the read-only hooks (ProxyServer::start registers the file logger at
\* every start)
HookNames == {"file_logger"}

\* mutating hooks by what modify_request_body / modify_response_text does:
\* one that always returns a replacement, one whose answer depends on the
\* body it is given, one that never returns a replacement
ModifyHooks == {"tag_a", "b_after_a", "never"}

Points == {"request_before", "request_after", "request_success",
           "request_failed", "response_chunk", "response_complete"}

Applies == {"apply_request", "apply_response"}

RegUnchanged ==
    UNCHANGED <<icpt, ov, inj, qd, rb, tracker, sem, scan, storeVars, usageVars, stopVars, sidVars,
                authVars, relayVars, pipeVars, taskVars>>

\* hook.modify_request_body(&current_body, ctx), for the hooks above
ModifyBody(h, body) ==
    CASE h = "tag_a" -> [some |-> TRUE, body |-> Append(body, "a")]
      [] h = "b_after_a" /\ body # <<>> /\ body[Len(body)] = "a" ->
            [some |-> TRUE, body |-> Append(body, "b")]
      [] OTHER -> [some |-> FALSE, body |-> <<>>]

\* a loop that hands every hook the body the caller gave
NextBodyOriginal(current_body, r) == current_body

\* if let Some(new_body) = ... { current_body = new_body; modified = true; }
NextBody(current_body, r) == IF r.some THEN r.body ELSE current_body

\* a registry that never looks at its flag
EnabledAlways(r) == TRUE

\* is_enabled: *self.enabled.read().await; the guard is gone when the
\* caller goes on
IsEnabled(r) == r.enabled

\* the list a dispatch walks, under its read lock
Walked(r) == IF r.d.kind \in Applies THEN r.modify_hooks ELSE r.hooks

\* register: hooks.write().await waits while a trigger walks the list
Register ==
    /\ Len(reg.hooks) < MaxHooks
    /\ ~(reg.d.pc = "loop" /\ reg.d.kind \in Points)
    /\ \E h \in HookNames : reg' = [reg EXCEPT !.hooks = Append(@, h)]
    /\ RegUnchanged

\* register_modify_hook: waits while an apply walks the list
RegisterModifyHook ==
    /\ Len(reg.modify_hooks) < MaxHooks
    /\ ~(reg.d.pc = "loop" /\ reg.d.kind \in Applies)
    /\ \E h \in ModifyHooks : reg' = [reg EXCEPT !.modify_hooks = Append(@, h)]
    /\ RegUnchanged

\* set_enabled
SetEnabled ==
    /\ \E b \in BOOLEAN : b # reg.enabled /\ reg' = [reg EXCEPT !.enabled = b]
    /\ RegUnchanged

\* trigger_* and apply_*_modifications, first statement: return (None) when
\* is_enabled() is false, else take the read lock of the list
DispatchStart ==
    /\ reg.d.pc = "idle"
    /\ \E kind \in Points \cup Applies, body \in {<<>>, <<"a">>} :
          /\ kind \in Points => body = <<>>
          /\ reg' = [reg EXCEPT
                       !.calls = <<>>,
                       !.result = [some |-> FALSE, body |-> <<>>],
                       !.d = [pc |-> IF IsEnabled(reg) THEN "loop" ELSE "idle",
                              kind |-> kind, i |-> 1, body |-> body,
                              modified |-> FALSE, at_start |-> reg.enabled,
                              orig |-> body]]
    /\ RegUnchanged

\* one turn of for hook in hooks.iter(): the hook is awaited
DispatchInvoke ==
    /\ reg.d.pc = "loop"
    /\ reg.d.i <= Len(Walked(reg))
    /\ LET h == Walked(reg)[reg.d.i]
           r == IF reg.d.kind \in Applies THEN ModifyBody(h, reg.d.body)
                                          ELSE [some |-> FALSE, body |-> <<>>]
       IN  reg' = [reg EXCEPT
                     !.calls = Append(@, [hook |-> h, point |-> reg.d.kind,
                                          enabled |-> reg.enabled,
                                          input |-> reg.d.body,
                                          some |-> r.some, output |-> r.body]),
                     !.d.i = @ + 1,
                     !.d.body = NextBody(@, r),
                     !.d.modified = @ \/ r.some]
    /\ RegUnchanged

\* the loop is over: if modified { Some(current_body) } else { None }
DispatchReturn ==
    /\ reg.d.pc = "loop"
    /\ reg.d.i > Len(Walked(reg))
    /\ reg' = [reg EXCEPT
                 !.d.pc = "idle",
                 !.result = IF reg.d.modified
                               THEN [some |-> TRUE, body |-> reg.d.body]
                               ELSE [some |-> FALSE, body |-> <<>>]]
    /\ RegUnchanged

----------------------------------------------------------------------------
(* proxy/hooks/custom_task.rs: the message try_intercept looks at *)

MaxMsgs == 2          \* messages of a request body

\* a message by its role and by what its content holds: a string or a
\* first text item for which parse_task_command returns a task, one for
\* which it returns None, or no text at all
BodyMessages ==
    [role : {"user", "assistant", "system"},
     content : {"directive", "plain", "no_text"}]

\* msgs.last(), taken only when its role is user; its text, if any
UserMessage(messages) ==
    IF messages = <<>> THEN "none"
    ELSE LET msg == messages[Len(messages)]
         IN  IF msg.role = "user" /\ msg.content # "no_text"
                THEN msg.content ELSE "none"

\* try_intercept up to the parse: not intercepted without a user message or
\* without a directive in it; every directive is answered locally
TryIntercept ==
    /\ ~icpt.done
    /\ icpt' = [icpt EXCEPT !.done = TRUE,
                            !.intercepted = UserMessage(icpt.messages) = "directive"]
    /\ UNCHANGED <<reg, ov, inj, qd, rb, tracker, sem, scan, storeVars, usageVars, stopVars, sidVars,
                   authVars, relayVars, pipeVars, taskVars>>

----------------------------------------------------------------------------
(* proxy/server.rs: the body a request sends upstream *)

Bodies ==
    {[kind |-> "object", model |-> m, rest |-> r] :
        m \in {"absent", "glm", "opus"}, r \in {"r1", "r2"}}
      \cup {[kind |-> k, model |-> "absent", rest |-> "none"] :
               k \in {"empty", "not_json", "null", "array"}}

\* an override that answers with an object of the model field alone
OverrideModelAlone(body, new_model) ==
    IF body.kind \in {"object", "null"}
       THEN [kind |-> "object", model |-> new_model, rest |-> "none"]
    ELSE IF body.kind = "array" THEN [body EXCEPT !.kind = "panic"]
    ELSE body

\* override_model_in_body: json["model"] = new_model on the parsed value
\* (an object keeps its other fields, null becomes an object, any other
\* value makes IndexMut panic), serialized again; a body that does not
\* parse is returned as it is
OverrideModelInBody(body, new_model) ==
    CASE body.kind = "object" -> [body EXCEPT !.model = new_model]
      [] body.kind = "null" -> [kind |-> "object", model |-> new_model, rest |-> "none"]
      [] body.kind = "array" -> [body EXCEPT !.kind = "panic"]
      [] OTHER -> body

OverrideUnchanged ==
    UNCHANGED <<reg, icpt, inj, qd, rb, tracker, sem, scan, storeVars, usageVars, stopVars,
                sidVars, authVars, relayVars, pipeVars, taskVars>>

\* proxy_handler: if let Some(ref model) = model_override
ApplyOverride ==
    /\ ov.pc = "override"
    /\ LET b == IF ov.model_override # NoModel
                   THEN OverrideModelInBody(ov.body, ov.model_override)
                   ELSE ov.body
       IN  ov' = [ov EXCEPT !.body = b,
                            !.pc = IF b.kind = "panic" THEN "panicked" ELSE "modify"]
    /\ OverrideUnchanged

\* proxy_handler: the replacement of the mutating hooks, if any, is the
\* final body; it is sent
SendBody ==
    /\ ov.pc = "modify"
    /\ ov' = [ov EXCEPT !.pc = "sent",
                        !.sent = IF ov.hook THEN [ov.body EXCEPT !.rest = "replaced"]
                                            ELSE ov.body]
    /\ OverrideUnchanged

----------------------------------------------------------------------------
(* proxy/hooks/compaction_injector.rs: the compaction injector *)

MaxBodyLen == 2

\* a request body as the pieces the injector tells apart: the phrase of a
\* summarization request, the marker its instructions go before, the
\* continuation phrase with its full stop and without it, other text
BodyPieces == {"task", "marker", "cont.", "cont", "text"}

InjBodies == UNION {[1..n -> BodyPieces] : n \in 0..MaxBodyLen}

\* the configurations update_config can store
Configs ==
    [enabled : BOOLEAN,
     summarization_instructions : {NoString, "", "ins"},
     context_injection : {NoString, "", "ctx"},
     context_providers_enabled : BOOLEAN]

\* fetch_combined_context: None, or the non-empty text of the providers
Fetched == {NoString, "prov"}

\* body.find(piece): the first position of the piece, 0 when absent
Find(body, piece) ==
    IF Contains(body, piece)
       THEN CHOOSE i \in DOMAIN body :
              body[i] = piece /\ \A j \in 1..(i - 1) : body[j] # piece
       ELSE 0

\* is_compaction_request
IsCompactionRequest(body) == Contains(body, "task")

\* is_compacted_conversation: the phrase without its full stop
IsCompactedConversation(body) == Contains(body, "cont") \/ Contains(body, "cont.")

\* inject_summarization_instructions
InjectSummarizationInstructions(body, instructions) ==
    LET pos == Find(body, "marker")
    IN  IF pos # 0
           THEN SubSeq(body, 1, pos - 1)
                  \o <<"## Additional Summarization Instructions", instructions, "nl nl">>
                  \o SubSeq(body, pos, Len(body))
           ELSE body \o <<"## Additional Instructions", instructions>>

\* inject_context: the marker is the phrase with its full stop
InjectContext(body, static_context, provider_context) ==
    LET pos == Find(body, "cont.")
        injection ==
          (IF provider_context \notin {NoString, ""}
              THEN <<"nl nl", provider_context>> ELSE <<>>)
          \o (IF static_context \notin {NoString, ""}
                 THEN <<"## Persistent Context", static_context, "nl">> ELSE <<>>)
    IN  IF pos # 0 /\ injection # <<>>
           THEN SubSeq(body, 1, pos) \o injection \o SubSeq(body, pos + 1, Len(body))
           ELSE body

\* modify_request_body: [some, body] for Some(body), some FALSE for None
ModifyRequestBodyOf(config, body, fetched) ==
    LET provider_context ==
          IF config.context_providers_enabled THEN fetched ELSE NoString
    IN  IF ~config.enabled THEN [some |-> FALSE, body |-> <<>>]
        ELSE IF IsCompactionRequest(body)
                  /\ config.summarization_instructions # NoString
          THEN [some |-> TRUE,
                body |-> InjectSummarizationInstructions(
                            body, config.summarization_instructions)]
        ELSE IF IsCompactedConversation(body)
                  /\ (config.context_injection # NoString
                        \/ provider_context # NoString)
          THEN [some |-> TRUE,
                body |-> InjectContext(body, config.context_injection,
                                       provider_context)]
        ELSE [some |-> FALSE, body |-> <<>>]

InjUnchanged ==
    UNCHANGED <<reg, icpt, ov, qd, rb, tracker, sem, scan, storeVars, usageVars,
                stopVars, sidVars, authVars, relayVars, pipeVars, taskVars>>

\* update_config
UpdateConfig(config) ==
    /\ inj.pc = "idle"
    /\ inj' = [inj EXCEPT !.config = config]
    /\ InjUnchanged

\* modify_request_body on one request body
ModifyRequestBody(body, fetched) ==
    /\ inj.pc = "idle"
    /\ LET r == ModifyRequestBodyOf(inj.config, body, fetched)
       IN  inj' = [inj EXCEPT !.body = body, !.fetched = fetched, !.pc = "done",
                              !.some = r.some, !.out = r.body]
    /\ InjUnchanged

\* the next request
InjectorNext ==
    /\ inj.pc = "done"
    /\ inj' = NewInjector(inj.config)
    /\ InjUnchanged

----------------------------------------------------------------------------
(* proxy/question_detector.rs: question detection over the text of a stream *)

MaxTexts == 3

MaxBufferSize == 4096

\* the text of a chunk, with its length in bytes: the two halves of a
\* question phrase ("Should I " and "proceed?"), the whole phrase, text
\* without a question, and a text longer than the buffer
TextPieces ==
    {[t |-> "should i ", n |-> 9], [t |-> "proceed", n |-> 8],
     [t |-> "should i proceed", n |-> 17], [t |-> "plain", n |-> 5],
     [t |-> "long", n |-> 5000]}

\* buffer.len()
RECURSIVE Bytes(_)
Bytes(buffer) ==
    IF buffer = <<>> THEN 0 ELSE Head(buffer).n + Bytes(Tail(buffer))

\* buffer[start..]: the first bytes go; a phrase that loses bytes is no
\* phrase any more
RECURSIVE DropBytes(_, _)
DropBytes(buffer, start) ==
    IF start = 0 \/ buffer = <<>> THEN buffer
    ELSE IF Head(buffer).n <= start
            THEN DropBytes(Tail(buffer), start - Head(buffer).n)
    ELSE <<[t |-> IF Head(buffer).t = "long" THEN "long" ELSE "cut",
            n |-> Head(buffer).n - start]>> \o Tail(buffer)

\* pattern.find(&buffer) for the pattern (?i)should i (?:proceed|continue)
Matches(buffer) ==
    \E i \in DOMAIN buffer :
        \/ buffer[i].t = "should i proceed"
        \/ /\ buffer[i].t = "should i "
           /\ i + 1 \in DOMAIN buffer
           /\ buffer[i + 1].t = "proceed"

\* process_text on a buffer: [buffer after the call, Some or None]
ProcessText(text_buffer, text) ==
    LET pushed == Append(text_buffer, text)
        kept == IF Bytes(pushed) > MaxBufferSize
                   THEN DropBytes(pushed, Bytes(pushed) - MaxBufferSize)
                   ELSE pushed
    IN  IF Matches(kept) THEN [buffer |-> <<>>, some |-> TRUE]
                         ELSE [buffer |-> kept, some |-> FALSE]

\* impl Clone for QuestionDetector: the patterns, and a new empty buffer
CloneDetector(text_buffer) == <<>>

QdUnchanged ==
    UNCHANGED <<reg, icpt, ov, inj, rb, tracker, sem, scan, storeVars, usageVars,
                stopVars, sidVars, authVars, relayVars, pipeVars, taskVars>>

\* proxy_handler, for a chunk with text: question_detector.clone() and, in
\* the spawned task, detector.process_text(&content_text); the clone is
\* dropped with the task
ProcessChunkText(text) ==
    /\ Len(qd.texts) < MaxTexts
    /\ LET detector == CloneDetector(qd.text_buffer)
           r == ProcessText(detector, text)
       IN  qd' = [qd EXCEPT !.texts = Append(@, text),
                            !.detected = Append(@, r.some),
                            !.after = Append(@, r.buffer)]
    /\ QdUnchanged

----------------------------------------------------------------------------
(* Initial values shared by the specifications *)

StoreBlank ==
    /\ accounts = <<>>
    /\ apiKeys = {}
    /\ nextId = 0
    /\ sessions = <<>>
    /\ mappings = {}
    /\ cmd = [c \in CmdSlots |-> IdleCmd]
    /\ req = IdleReq
    /\ lastRoute = NoRoute
    /\ usageLog = {}

\* the history is off: neither the session ids that have had a row nor the
\* account a switch found active are recorded
StoreEmpty ==
    /\ StoreBlank
    /\ everSession = [on |-> FALSE, ids |-> {}, switches |-> FALSE]

SidIdle ==
    /\ hdr = NoHeaders
    /\ sidOut = [done |-> TRUE, sid |-> NoSid]

TaskIdle == SseIdle /\ ParseIdle

----------------------------------------------------------------------------
(* Spec: the account store under concurrent UI commands *)

Init ==
    /\ StoreEmpty
    /\ StopIdle
    /\ StreamIdle
    /\ TaskIdle
    /\ envTodo = FALSE
    /\ SidIdle /\ AuthIdle /\ RelayIdle /\ PipeIdle

Next ==
    \E c \in CmdSlots :
        \/ CreateAccountInsert(c)
        \/ CreateAccountSaveKey(c)
        \/ CreateAccountCount(c)
        \/ SwitchAccountStart(c)
        \/ SwitchClear(c)
        \/ SwitchSet(c)
        \/ SwitchVerify(c)
        \/ DeleteAccountStart(c)
        \/ DeleteAccountKey(c)

Spec == Init /\ [][Next]_vars

----------------------------------------------------------------------------
(* SpecRoute: the request handler's routing against the store, interleaved *)
(* statement by statement with one UI command at a time; the client sends   *)
(* the same session headers with every request of a run                     *)

InitRoute ==
    /\ StoreBlank
    /\ everSession = [on |-> FALSE, ids |-> {}, switches |-> TRUE]
    /\ StopIdle
    /\ StreamIdle
    /\ TaskIdle
    /\ envTodo \in BOOLEAN
    /\ hdr \in RouteHeaders
    /\ sidOut = [done |-> TRUE, sid |-> NoSid]
    /\ AuthIdle /\ RelayIdle /\ PipeIdle

NextRoute ==
    \/ CreateAccountInsert(1)
    \/ CreateAccountSaveKey(1)
    \/ CreateAccountCount(1)
    \/ SwitchAccountStart(1)
    \/ SwitchClear(1)
    \/ SwitchSet(1)
    \/ SwitchVerify(1)
    \/ DeleteAccountStart(1)
    \/ DeleteAccountKey(1)
    \/ SetSessionConfigStart(1)
    \/ SetSessionConfigUpsert(1)
    \/ DeleteSessionConfig(1)
    \/ ReqStart
    \/ ReqGetSessionConfig
    \/ ReqGetAccount
    \/ ReqGetActiveAccount
    \/ ReqUpsertSession
    \/ ReqSaveMapping
    \/ ReqGetApiKey
    \/ ReqUpdateActivity

SpecRoute == InitRoute /\ [][NextRoute]_vars

----------------------------------------------------------------------------
(* SpecSid: the session-id derivation on every combination of headers *)

InitSid ==
    /\ StoreEmpty
    /\ StopIdle
    /\ StreamIdle
    /\ TaskIdle
    /\ envTodo = FALSE
    /\ hdr \in Headers
    /\ sidOut = [done |-> FALSE, sid |-> NoSid]
    /\ AuthIdle /\ RelayIdle /\ PipeIdle

NextSid == DeriveStep

SpecSid == InitSid /\ [][NextSid]_vars

----------------------------------------------------------------------------
(* SpecAuth: the outbound headers on every bounded request *)

InitAuth ==
    /\ StoreEmpty
    /\ StopIdle
    /\ StreamIdle
    /\ TaskIdle
    /\ envTodo = FALSE
    /\ SidIdle /\ RelayIdle /\ PipeIdle
    /\ authIn \in AuthInputs
    /\ authOut = [done |-> FALSE, headers |-> <<>>]

NextAuth == BuildStep

SpecAuth == InitAuth /\ [][NextAuth]_vars

----------------------------------------------------------------------------
(* SpecRelay: the relay of one response stream *)

InitRelay ==
    /\ StoreEmpty
    /\ StopIdle
    /\ StreamIdle
    /\ TaskIdle
    /\ envTodo = FALSE
    /\ SidIdle /\ AuthIdle /\ PipeIdle
    /\ upstream \in Streams
    /\ received = <<>>
    /\ delivered = <<>>
    /\ tasks = {}
    /\ apiLog \in BOOLEAN

NextRelay ==
    \/ ChunkArrives
    \/ TaskFinishes

SpecRelay == InitRelay /\ [][NextRelay]_vars

----------------------------------------------------------------------------
(* SpecPipe: the pipeline of one request *)

InitPipe ==
    /\ StoreEmpty
    /\ StopIdle
    /\ StreamIdle
    /\ TaskIdle
    /\ envTodo = FALSE
    /\ SidIdle /\ AuthIdle /\ RelayIdle
    /\ pipe \in PipeInputs
    /\ events = <<>>

NextPipe ==
    \/ PipeLoadHooks
    \/ PipeIntercept
    \/ PipeRequestBefore
    \/ PipeModify
    \/ PipeSend
    \/ PipeLogUsage

SpecPipe == InitPipe /\ [][NextPipe]_vars

----------------------------------------------------------------------------
(* SpecSse: generate_sse_response applied to one response text *)

InitSse ==
    /\ StoreEmpty
    /\ StopIdle
    /\ StreamIdle
    /\ envTodo = FALSE
    /\ SidIdle /\ AuthIdle /\ RelayIdle /\ PipeIdle /\ ParseIdle
    /\ sse \in [pc : {"text"}, text : SseTexts, out : {<<>>}]

NextSse == GenerateStep

SpecSse == InitSse /\ [][NextSse]_vars

----------------------------------------------------------------------------
(* SpecParse: parse_task_command applied to one user message *)

InitParse ==
    /\ StoreEmpty
    /\ StopIdle
    /\ StreamIdle
    /\ envTodo = FALSE
    /\ SidIdle /\ AuthIdle /\ RelayIdle /\ PipeIdle /\ SseIdle
    /\ parse \in [pc : {"message"}, message : ParseMessages, result : {NoCommand}]

NextParse == ParseStep

SpecParse == InitParse /\ [][NextParse]_vars

----------------------------------------------------------------------------
(* SpecUsage: requests that log their usage, beside the commands that *)
(* remove session rows and accounts; one account is active at the start *)

InitUsage ==
    /\ accounts = InsertAccount(<<>>, 1, TRUE)
    /\ apiKeys = {1}
    /\ nextId = 1
    /\ sessions = <<>>
    /\ mappings = {}
    /\ cmd = [c \in CmdSlots |-> IdleCmd]
    /\ req = IdleReq
    /\ lastRoute = NoRoute
    /\ usageLog = {}
    /\ everSession = [on |-> TRUE, ids |-> {}, switches |-> FALSE]
    /\ envTodo = FALSE
    /\ hdr \in RouteHeaders
    /\ sidOut = [done |-> TRUE, sid |-> NoSid]
    /\ AuthIdle /\ RelayIdle /\ PipeIdle /\ TaskIdle /\ StopIdle /\ StreamIdle

NextUsage ==
    \/ DeleteAccountStart(1)
    \/ DeleteAccountKey(1)
    \/ SetSessionConfigStart(1)
    \/ SetSessionConfigUpsert(1)
    \/ DeleteSessionConfig(1)
    \/ ReqStart
    \/ ReqGetSessionConfig
    \/ ReqGetAccount
    \/ ReqGetActiveAccount
    \/ ReqUpsertSession
    \/ ReqGetApiKey
    \/ ReqUpdateActivity
    \/ ReqLogUsage

SpecUsage == InitUsage /\ [][NextUsage]_vars

----------------------------------------------------------------------------
(* SpecStopFair: one proxy instance, its clients and the stop command *)

InitStop ==
    /\ StoreEmpty
    /\ StopIdle
    /\ StreamIdle
    /\ envTodo = FALSE
    /\ SidIdle /\ AuthIdle /\ RelayIdle /\ PipeIdle /\ TaskIdle

NextStop ==
    \/ StartProxy
    \/ StopProxy
    \/ Connect
    \/ Accept
    \/ LoopExit
    \/ Complete

\* the select task is woken by the send and polled by the runtime; a
\* connection task is polled until its request is served
SpecStopFair ==
    InitStop /\ [][NextStop]_vars /\ WF_vars(LoopExit) /\ WF_vars(Complete)

----------------------------------------------------------------------------
(* SpecBuilder: one response stream and its tasks that write the *)
(* ResponseBuilder and dispatch the completion hooks *)

InitBuilder ==
    /\ StoreEmpty
    /\ StopIdle
    /\ TaskIdle
    /\ envTodo = FALSE
    /\ SidIdle /\ AuthIdle /\ PipeIdle
    /\ upstream \in Streams
    /\ received = <<>>
    /\ delivered = <<>>
    /\ tasks = {}
    /\ apiLog \in BOOLEAN
    /\ rb \in {NewBuilder(s, e) : s \in BOOLEAN, e \in BOOLEAN}
    /\ tracker = NewTracker(TRUE, TRUE, "none")
    /\ UsageIdle

NextBuilder ==
    \/ ChunkArrives
    \/ AppendTextRuns
    \/ FanoutRuns

SpecBuilder == InitBuilder /\ [][NextBuilder]_vars

----------------------------------------------------------------------------
(* SpecTracker: one response stream and its tasks that drive the step *)
(* tracker; the session may be in a phase left by an earlier response *)

InitTracker ==
    /\ StoreEmpty
    /\ StopIdle
    /\ TaskIdle
    /\ envTodo = FALSE
    /\ SidIdle /\ AuthIdle /\ PipeIdle
    /\ upstream \in Streams
    /\ received = <<>>
    /\ delivered = <<>>
    /\ tasks = {}
    /\ apiLog = TRUE
    /\ rb = NewBuilder(TRUE, TRUE)
    /\ tracker \in {NewTracker(h, m, c) :
                       h \in BOOLEAN, m \in BOOLEAN, c \in {"none", "ANALYSIS"}}
    /\ UsageIdle

NextTracker ==
    \/ ChunkArrives
    \/ ToolUseRuns
    \/ CompleteRuns

SpecTracker == InitTracker /\ [][NextTracker]_vars

----------------------------------------------------------------------------
(* SpecSem: the usage-log tasks of the responses of one proxy *)

InitSem ==
    /\ StoreEmpty
    /\ StopIdle
    /\ TaskIdle
    /\ envTodo = FALSE
    /\ SidIdle /\ AuthIdle /\ RelayIdle /\ PipeIdle
    /\ rb = NewBuilder(TRUE, TRUE)
    /\ tracker = NewTracker(TRUE, TRUE, "none")
    /\ sem = NewSem
    /\ scan = NewScan(<<>>, {})
    /\ HookIdle

NextSem ==
    \/ SpawnLogTask
    \/ LogTaskAcquires
    \/ LogTaskLogs
    \/ LogTaskSendsUsage

SpecSem == InitSem /\ [][NextSem]_vars

----------------------------------------------------------------------------
(* SpecScan: one response under one chunking *)

InitScan ==
    /\ StoreEmpty
    /\ StopIdle
    /\ TaskIdle
    /\ envTodo = FALSE
    /\ SidIdle /\ AuthIdle /\ RelayIdle /\ PipeIdle
    /\ rb = NewBuilder(TRUE, TRUE)
    /\ tracker = NewTracker(TRUE, TRUE, "none")
    /\ sem = NewSem
    /\ \E lines \in Responses, cuts \in SUBSET (1..(2 * MaxLines - 1)) :
          /\ cuts \subseteq CutPoints(lines)
          /\ scan = NewScan(lines, cuts)
    /\ HookIdle

NextScan == ScanStep

SpecScan == InitScan /\ [][NextScan]_vars

----------------------------------------------------------------------------
(* SpecRegistry: one registry, its registrations, set_enabled and one *)
(* dispatch at a time *)

InitRegistry ==
    /\ StoreEmpty
    /\ StopIdle
    /\ StreamIdle
    /\ TaskIdle
    /\ envTodo = FALSE
    /\ SidIdle /\ AuthIdle /\ RelayIdle /\ PipeIdle

NextRegistry ==
    \/ Register
    \/ RegisterModifyHook
    \/ SetEnabled
    \/ DispatchStart
    \/ DispatchInvoke
    \/ DispatchReturn

SpecRegistry == InitRegistry /\ [][NextRegistry]_vars

----------------------------------------------------------------------------
(* SpecIntercept: try_intercept on one request body *)

InitIntercept ==
    /\ StoreEmpty
    /\ StopIdle
    /\ TaskIdle
    /\ envTodo = FALSE
    /\ SidIdle /\ AuthIdle /\ RelayIdle /\ PipeIdle
    /\ rb = NewBuilder(TRUE, TRUE)
    /\ tracker = NewTracker(TRUE, TRUE, "none")
    /\ sem = NewSem
    /\ scan = NewScan(<<>>, {})
    /\ reg = NewRegistry
    /\ ov = NewOverride(EmptyBody, NoModel, FALSE)
    /\ inj = NewInjector(DefaultConfig)
    /\ qd = NewDetector
    /\ icpt \in {NewIntercept(m) : m \in UNION {[1..n -> BodyMessages] : n \in 0..MaxMsgs}}

NextIntercept == TryIntercept

SpecIntercept == InitIntercept /\ [][NextIntercept]_vars

----------------------------------------------------------------------------
(* SpecDelete: create_account and delete_account commands on a store that *)
(* holds accounts with their keys, session rows and usage rows; the key    *)
(* file is read and written in separate steps                              *)

InitDelete ==
    /\ \E n \in 1..MaxAccounts :
          /\ accounts = [a \in 1..n |-> [is_active |-> a = 1]]
          /\ apiKeys = 1..n
          /\ nextId = n
          /\ \E f \in [SessionKeys -> 1..n] :
                sessions = [k \in SessionKeys |->
                              [account_id |-> f[k], model_override |-> NoModel]]
          /\ usageLog = {[account_id |-> a, session_id |-> NoSid,
                          insert_failed |-> FALSE] : a \in 1..n}
    /\ mappings = {}
    /\ cmd = [c \in CmdSlots |-> IdleCmd]
    /\ req = IdleReq
    /\ lastRoute = NoRoute
    /\ everSession = [on |-> FALSE, ids |-> {}, switches |-> FALSE]
    /\ envTodo = FALSE
    /\ SidIdle /\ AuthIdle /\ RelayIdle /\ PipeIdle /\ TaskIdle /\ StopIdle /\ StreamIdle

NextDelete ==
    \E c \in CmdSlots :
        \/ CreateAccountInsert(c)
        \/ LoadKeys(c)
        \/ CreateAccountWriteKeys(c)
        \/ CreateAccountCount(c)
        \/ SwitchClear(c)
        \/ SwitchSet(c)
        \/ DeleteAccountStart(c)
        \/ DeleteAccountWriteKeys(c)

SpecDelete == InitDelete /\ [][NextDelete]_vars

----------------------------------------------------------------------------
(* SpecOverride: the body of one routed request *)

InitOverride ==
    /\ StoreEmpty
    /\ StopIdle
    /\ TaskIdle
    /\ envTodo = FALSE
    /\ SidIdle /\ AuthIdle /\ RelayIdle /\ PipeIdle
    /\ rb = NewBuilder(TRUE, TRUE)
    /\ tracker = NewTracker(TRUE, TRUE, "none")
    /\ sem = NewSem
    /\ scan = NewScan(<<>>, {})
    /\ reg = NewRegistry
    /\ icpt = NewIntercept(<<>>)
    /\ inj = NewInjector(DefaultConfig)
    /\ qd = NewDetector
    /\ ov \in {NewOverride(b, m, h) :
                  b \in Bodies, m \in Models \cup {NoModel}, h \in BOOLEAN}

NextOverride ==
    \/ ApplyOverride
    \/ SendBody

SpecOverride == InitOverride /\ [][NextOverride]_vars

----------------------------------------------------------------------------
(* SpecInject: the compaction injector on one request body at a time *)

InitInject ==
    /\ StoreEmpty
    /\ StopIdle
    /\ TaskIdle
    /\ envTodo = FALSE
    /\ SidIdle /\ AuthIdle /\ RelayIdle /\ PipeIdle
    /\ rb = NewBuilder(TRUE, TRUE)
    /\ tracker = NewTracker(TRUE, TRUE, "none")
    /\ sem = NewSem
    /\ scan = NewScan(<<>>, {})
    /\ reg = NewRegistry
    /\ icpt = NewIntercept(<<>>)
    /\ ov = NewOverride(EmptyBody, NoModel, FALSE)
    /\ inj = NewInjector(DefaultConfig)
    /\ qd = NewDetector

NextInject ==
    \/ \E config \in Configs : UpdateConfig(config)
    \/ \E body \in InjBodies, fetched \in Fetched : ModifyRequestBody(body, fetched)
    \/ InjectorNext

SpecInject == InitInject /\ [][NextInject]_vars

----------------------------------------------------------------------------
(* SpecCreate: create_account commands alone, on a store without accounts *)

InitCreate == Init

NextCreate ==
    \E c \in CmdSlots :
        \/ CreateAccountInsert(c)
        \/ LoadKeys(c)
        \/ CreateAccountKeysFail(c)
        \/ CreateAccountWriteKeys(c)
        \/ CreateAccountCount(c)
        \/ SwitchClear(c)
        \/ SwitchSet(c)

SpecCreate == InitCreate /\ [][NextCreate]_vars

----------------------------------------------------------------------------
(* SpecQuestion: the texts of the chunks of one response, one after another *)

InitQuestion ==
    /\ StoreEmpty
    /\ StopIdle
    /\ StreamIdle
    /\ TaskIdle
    /\ envTodo = FALSE
    /\ SidIdle /\ AuthIdle /\ RelayIdle /\ PipeIdle

NextQuestion == \E text \in TextPieces : ProcessChunkText(text)

SpecQuestion == InitQuestion /\ [][NextQuestion]_vars

----------------------------------------------------------------------------
(* Properties of the account store (Spec) *)

\* C1: in every reachable state, whatever the interleaving of create_account,
\* switch_account and delete_account, at most one account row is active.
AtMostOneActive == Cardinality(ActiveIds(accounts)) <= 1

\* C2: when Database::switch_account(id) returns Ok, exactly one account row
\* is active and it is the row with the id that was passed.
SwitchLeavesExactlyThatOneActive ==
    [][\A c \in CmdSlots :
          (cmd[c].op = "switch" /\ cmd[c].pc = "set" /\ cmd'[c].pc = "verify")
              => ActiveIds(accounts') = {cmd[c].id}]_vars

\* C3: switch_account is idempotent: on every reachable account table and for
\* every id (existing or not), running it twice equals running it once.
SwitchIdempotent ==
    \A id \in AccountIds \cup {NoAccount} :
        SwitchAccount(SwitchAccount(accounts, id), id) = SwitchAccount(accounts, id)

\* a switch to an existing account has just run on a table of two accounts
\* and left that account the only active one
SwitchIdempotentWitness ==
    \E c \in CmdSlots :
        /\ cmd[c].op = "switch" /\ cmd[c].pc = "verify"
        /\ cmd[c].id \in DOMAIN accounts
        /\ Cardinality(DOMAIN accounts) >= 2
        /\ ActiveIds(accounts) = {cmd[c].id}
        /\ SwitchAccount(accounts, cmd[c].id) = accounts

----------------------------------------------------------------------------
(* Properties of the session-id derivation (SpecSid) *)

\* C8: the session id is the x-session-id value; else the x-request-id value;
\* else the part of sentry-trace before its first '-'; else none - a header of
\* lower priority is used whenever every higher one yields no usable value.
FirstUsableHeaderWins == sidOut.done => sidOut.sid = DeriveSessionIdRetry(hdr)

----------------------------------------------------------------------------
(* Properties of the routing (SpecRoute) *)

\* a step of the request handler
ReqStep == req'.pc # req.pc

SameDecision ==
    /\ req.acc = req.prev.acc
    /\ req.mo = req.prev.mo
    /\ req.existing

EmptySidIsNoSid ==
    [][(req.sid = SomeSid(EmptySid) /\ ReqStep) => UNCHANGED sessVars]_vars

\* C10 (as stated): routing a request whose session id has no row inserts the
\* row (active account, no override); a request with no session id leaves the
\* session table and the mapping table unchanged.
NewSessionAlwaysStored ==
    [][(/\ req.pc = "upsert" /\ ReqStep
        /\ req.sid.val \notin DOMAIN sessions)
          => /\ req.sid.val \in DOMAIN sessions'
             /\ sessions'[req.sid.val] =
                   [account_id |-> req.acc, model_override |-> NoModel]]_vars

\* C10 (amended): the account of a new route is one that was active when the
\* handler read it; the insert either stores exactly the row (that account, no
\* override) and nothing else, or fails and leaves the table as it was, and
\* the request is routed to that account either way; a request with no
\* session id writes neither table.
NewSessionStoredOrSkipped ==
    [][ReqStep =>
        /\ (req.pc = "active" /\ req'.pc \in {"upsert", "key"})
              => /\ req'.acc \in DOMAIN accounts
                 /\ accounts[req'.acc].is_active
        /\ (req.pc = "upsert" /\ req.sid.val \notin DOMAIN sessions)
              => /\ req'.acc = req.acc
                 /\ req'.pc \in {"mapping", "key"}
                 /\ \/ /\ req'.upsert = "ok"
                       /\ DOMAIN sessions' = DOMAIN sessions \cup {req.sid.val}
                       /\ sessions'[req.sid.val] =
                             [account_id |-> req.acc, model_override |-> NoModel]
                       /\ \A k \in DOMAIN sessions : sessions'[k] = sessions[k]
                    \/ /\ req'.upsert = "failed"
                       /\ sessions' = sessions
        /\ (~req.sid.some /\ req.pc \in InFlight) => UNCHANGED sessVars]_vars

\* the insert of a new route has stored the row for session "a" beside
\* another session's row, bound to the active account
NewSessionStoredWitness ==
    /\ req.pc \in {"mapping", "key"}
    /\ req.sid = SomeSid(<<"a">>)
    /\ ~req.existing
    /\ req.upsert = "ok"
    /\ req.clean
    /\ Cardinality(DOMAIN accounts) = 2
    /\ <<"a">> \in DOMAIN sessions
    /\ sessions[<<"a">>] = [account_id |-> req.acc, model_override |-> NoModel]
    /\ accounts[req.acc].is_active

----------------------------------------------------------------------------
(* Properties of the outbound headers (SpecAuth) *)

AuthOf(hs) == SelectSeq(hs, LAMBDA h : h.name \in AuthNames)
StoredKeyHeader == [name |-> "x-api-key", val |-> TextV(authIn.api_key)]
Canonical == Contains(authIn.base_url, "api.anthropic.com")

\* C4 (as stated): the outbound authentication headers are exactly the
\* inbound ones when the base URL contains api.anthropic.com, and otherwise
\* exactly one x-api-key header carrying the stored key.
OutboundAuthAsStated ==
    authOut.done =>
        AuthOf(authOut.headers) =
            IF Canonical THEN AuthOf(authIn.headers) ELSE <<StoredKeyHeader>>

\* C4 (amended): the outbound authentication headers are the inbound ones
\* whose value is readable text when the base URL contains api.anthropic.com;
\* otherwise they are exactly one x-api-key header carrying the stored key
\* when that key is not empty, and none at all when it is empty.
OutboundAuth ==
    authOut.done =>
        AuthOf(authOut.headers) =
            IF Canonical
               THEN SelectSeq(AuthOf(authIn.headers), LAMBDA h : h.val.kind = "text")
               ELSE IF authIn.api_key # <<>> THEN <<StoredKeyHeader>> ELSE <<>>

\* a request for a non-canonical upstream came in with both authentication
\* headers and went out with the stored key alone
OutboundAuthWitness ==
    /\ authOut.done
    /\ ~Canonical
    /\ authIn.api_key # <<>>
    /\ {authIn.headers[i].name : i \in DOMAIN authIn.headers} = AuthNames
    /\ authOut.headers = <<StoredKeyHeader>>

----------------------------------------------------------------------------
(* Properties of the response relay (SpecRelay) *)

\* C5: the chunks delivered to the client are the chunks received from the
\* upstream, in the same order and unmodified, whatever the scanners find,
\* whether or not a chunk is UTF-8, and however long the detached tasks run.
RelayVerbatim == delivered = received

\* a chunk that is not UTF-8 and a chunk with text and usage have been
\* delivered while the tasks spawned for the latter are still running
RelayVerbatimWitness ==
    /\ delivered = <<BinaryChunk, UsageChunk>>
    /\ upstream = <<>>
    /\ Cardinality(tasks) >= 3

----------------------------------------------------------------------------
(* Properties of the request pipeline (SpecPipe) *)

StatedRank(e) ==
    CASE e = "request_before" -> 1
      [] e = "modify" -> 2
      [] e = "intercept" -> 3
      [] e = "upstream" -> 4
      [] e = "log_usage" -> 5

\* C6: within a request, request_before is dispatched, then the mutating
\* hooks run, then the command interceptor is consulted, then the upstream
\* request is issued; request_before has been dispatched for a request the
\* interceptor answers (when the session logs and the registry is enabled).
PipelineOrderAsStated ==
    /\ \A i, j \in DOMAIN events :
          i < j => StatedRank(events[i]) < StatedRank(events[j])
    /\ (/\ pipe.pc = "answered"
        /\ pipe.registry_enabled
        /\ (pipe.session_hooks.some => pipe.session_hooks.api_logging_enabled))
          => \E i \in DOMAIN events : events[i] = "request_before"

----------------------------------------------------------------------------
(* Properties of the routing failures (SpecRoute) *)

\* C11: routing failures are status codes and end the request: 503 when the
\* active account is needed and no account is active, 503 when the account of
\* the session row no longer exists, 500 when the resolved account has no
\* entry in the key vault; a failed request sends nothing upstream.
RoutingFailures ==
    [][ReqStep =>
        /\ (/\ req.pc = "active" /\ ~req'.fault
            /\ \A a \in DOMAIN accounts : ~accounts[a].is_active)
              => (req'.pc = "failed" /\ req'.status = 503)
        /\ (req.pc = "account" /\ ~req'.fault /\ req.acc \notin DOMAIN accounts)
              => (req'.pc = "failed" /\ req'.status = 503)
        /\ (req.pc = "key" /\ ~req'.fault /\ req.acc \notin apiKeys)
              => (req'.pc = "failed" /\ req'.status = 500)
        /\ req.pc = "failed" => req'.pc \in {"lookup", "active"}]_vars

\* a request was refused with 503 by a store that answered, while accounts
\* exist and none of them is active
RoutingFailuresWitness ==
    /\ req.pc = "failed"
    /\ req.status = 503
    /\ ~req.fault
    /\ DOMAIN accounts # {}
    /\ \A a \in DOMAIN accounts : ~accounts[a].is_active

\* C19: a store failure in session bookkeeping (session insert, mapping,
\* activity update) leaves the request on its way to the same account, as a
\* success does; a store failure in the lookup of the session's account or of
\* the active account, or in reading the key, ends the request with 500.
StoreFailurePolicy ==
    [][ReqStep =>
        /\ (req.pc \in {"account", "active", "key"} /\ req'.fault)
              => (req'.pc = "failed" /\ req'.status = 500)
        /\ req.pc = "upsert"
              => /\ req'.pc = IF envTodo THEN "mapping" ELSE "key"
                 /\ req'.acc = req.acc /\ req'.mo = req.mo
                 /\ req'.existing = req.existing
        /\ req.pc = "mapping"
              => /\ req'.pc = "key"
                 /\ req'.acc = req.acc /\ req'.mo = req.mo
                 /\ req'.existing = req.existing
        /\ req.pc = "activity"
              => (req'.pc = "routed" /\ req'.acc = req.acc)]_vars

\* a request whose session insert failed has gone on to the upstream with
\* the account it read
StoreFailurePolicyWitness ==
    /\ req.pc = "key"
    /\ req.upsert = "failed"
    /\ req.fault
    /\ ~req.existing
    /\ req.acc \in DOMAIN accounts
    /\ accounts[req.acc].is_active
    /\ req.sid.val \notin DOMAIN sessions

----------------------------------------------------------------------------
(* Properties of the command interceptor (SpecPipe) *)

CustomTasksEnabled ==
    pipe.session_hooks.some => pipe.session_hooks.custom_tasks_enabled

\* C12: with custom tasks enabled for the session, a message that carries a
\* '>>swiftcast <name>' directive (list, reload, a known or an unknown task)
\* is answered locally with 200 text/event-stream; the request path ends
\* there: no upstream request is issued and no usage-log row is written.
InterceptedAnsweredLocally ==
    [][/\ (/\ pipe.pc = "intercept" /\ CustomTasksEnabled
            /\ pipe.message \in Directives)
              => /\ pipe'.pc = "answered"
                 /\ pipe'.status = 200
                 /\ pipe'.content_type = "text/event-stream"
       /\ pipe'.pc = "answered"
              => \A i \in DOMAIN events' :
                    events'[i] \notin {"upstream", "log_usage"}
       /\ pipe.pc # "answered"]_vars

\* a directive naming a task that is not in tasks.json was answered locally
InterceptedAnsweredWitness ==
    /\ pipe.pc = "answered"
    /\ pipe.message = "unknown"
    /\ pipe.status = 200
    /\ events = <<"intercept">>

\* the text that a JSON parser reads from the characters of a string literal
RECURSIVE UnescapeJson(_)
UnescapeJson(t) ==
    IF t = <<>> THEN <<>>
    ELSE IF Head(t) = "backslash" /\ Len(t) >= 2
         THEN <<IF t[2] = "n" THEN "newline" ELSE t[2]>>
                 \o UnescapeJson(SubSeq(t, 3, Len(t)))
         ELSE <<Head(t)>> \o UnescapeJson(Tail(t))

\* the texts of the content_block_delta events, decoded and concatenated
RECURSIVE DeltaTexts(_)
DeltaTexts(evs) ==
    IF evs = <<>> THEN <<>>
    ELSE (IF Head(evs).type = "content_block_delta"
             THEN UnescapeJson(Head(evs).text) ELSE <<>>) \o DeltaTexts(Tail(evs))

\* C13: the synthesized stream is one message_start, one
\* content_block_start, the content_block_delta events (each of at most 50
\* code points, their texts in order making up the response text), one
\* content_block_stop, one message_delta with stop_reason null, and one
\* message_stop last.
SseSequence ==
    sse.pc = "done" =>
        LET out == sse.out
            n == Len(out)
        IN  /\ n >= 5
            /\ out[1].type = "message_start"
            /\ out[2].type = "content_block_start"
            /\ \A i \in 3..(n - 3) :
                  /\ out[i].type = "content_block_delta"
                  /\ Len(UnescapeJson(out[i].text)) <= 50
            /\ out[n - 2].type = "content_block_stop"
            /\ out[n - 1].type = "message_delta"
            /\ out[n - 1].stop_reason = "null"
            /\ out[n].type = "message_stop"
            /\ DeltaTexts(out) = sse.text

\* a text of more than two full chunks, with a quote in it, was rendered
SseSequenceWitness ==
    /\ sse.pc = "done"
    /\ Len(sse.text) > 2 * ChunkSize
    /\ \E i \in DOMAIN sse.text : sse.text[i] = "quote"
    /\ Len(sse.out) = 8

\* C14: for a message that contains '>>swiftcast ', the task name is the
\* first whitespace-delimited token after the first occurrence and the
\* arguments are the rest of the message after that token, trimmed, also
\* when whitespace precedes the token; without the substring the result is
\* none.
ParseAsStated ==
    parse.pc = "done" =>
        LET m == parse.message
            pos == FindPattern(m)
            after == SubSeq(m, pos + Len(Pattern), Len(m))
            token == FirstToken(after)
            rest == SubSeq(after, LeadingSpaces(after) + Len(token) + 1, Len(after))
        IN  IF pos = 0 THEN ~parse.result.some
            ELSE token # <<>> =>
                    /\ parse.result.some
                    /\ parse.result.name = token
                    /\ parse.result.args = Trim(rest)

\* C15: the compaction injector runs on a request as the per-session
\* override says when the session has one (whatever the global flag), and as
\* the global compaction_injection_enabled flag says when it has none
\* (stated for a registry that is enabled).
CompactionDecisionAsStated ==
    (pipe.pc \in {"send", "streaming", "streamed", "failed"} /\ pipe.registry_enabled)
        => pipe.injected = IF pipe.session_hooks.some
                              THEN pipe.session_hooks.compaction_injection_enabled
                              ELSE pipe.config_enabled

----------------------------------------------------------------------------
(* Properties of the usage log (SpecUsage) *)

----------------------------------------------------------------------------
(* Properties of the session table (SpecRoute) *)

\* C17: under any interleaving of request routing, set_session_config,
\* delete_session_config and delete_account, the account_id of every
\* session row names an account that exists in the account table.
SessionAccountsExist ==
    \A k \in DOMAIN sessions : sessions[k].account_id \in DOMAIN accounts

\* an account has been deleted and two session rows are stored
SessionAccountsWitness ==
    /\ Cardinality(DOMAIN sessions) = 2
    /\ \E id \in 1..nextId : id \notin DOMAIN accounts

\* C18: a registered session keeps its upstream account: no step of
\* create_account or switch_account changes a session row, and a request of
\* a session that has a row is routed by that row (its account and its model
\* override), whichever account is active.
SessionKeepsAccount ==
    [][/\ (\E c \in CmdSlots : \/ cmd[c].op \in {"create", "switch"}
                                \/ cmd'[c].op \in {"create", "switch"})
              => sessions' = sessions
       /\ (ReqStep /\ req.pc = "lookup" /\ req.sid.val \in DOMAIN sessions)
              => /\ req'.pc = "account"
                 /\ req'.acc = sessions[req.sid.val].account_id
                 /\ req'.mo = sessions[req.sid.val].model_override]_vars

\* C39: the account_id and model override of an existing session row are
\* changed only by set_session_config: a step that leaves a row in place
\* with another account or override is a step of that command, never a
\* step of the routing of a request, a store error while reading the row
\* included.
RowsChangedBySetConfigOnly ==
    [][\A k \in DOMAIN sessions :
          (k \in DOMAIN sessions' /\ sessions'[k] # sessions[k])
             => \E c \in CmdSlots :
                   cmd[c].op = "setsession" /\ cmd'[c] # cmd[c]]_vars

----------------------------------------------------------------------------
(* Properties of proxy stop (SpecStopFair) *)

\* C20: stopping the proxy is a single-shot signal: a stop of the running
\* proxy is followed by the exit of the accept loop, after which no
\* connection is accepted; the exit leaves the requests in flight alone and
\* each of them runs to completion; a second stop changes nothing.
StopIsSingleShot ==
    /\ (proxy.signalled ~> proxy.loop = "exited")
    /\ [][/\ proxy.loop = "exited"
              => (proxy'.loop = "exited" /\ conns'.inflight <= conns.inflight)
          /\ proxy.loop # proxy'.loop
              => (conns'.inflight = conns.inflight
                  /\ conns'.completed = conns.completed)
          /\ (proxy'.stops # proxy.stops /\ ~proxy.slot)
              => (conns' = conns
                  /\ proxy' = [proxy EXCEPT !.stops = proxy'.stops])]_vars
    /\ \A n \in 1..MaxConns :
          (conns.inflight + conns.completed >= n) ~> (conns.completed >= n)

\* the loop has exited on a stop while a request was in flight, the request
\* has completed since, and stop has been called a second time
StopIsSingleShotWitness ==
    /\ proxy.loop = "exited"
    /\ proxy.stops = 2
    /\ conns.completed >= 1
    /\ conns.refused >= 1
    /\ conns.inflight = 0

----------------------------------------------------------------------------
(* Properties of a request beside a switch (SpecRoute) *)

\* C21: switch_account clears every is_active flag and sets one in two
\* statements; a request that reads the active account between the two finds
\* none and, having no registered session to route by, is answered 503.
ReadBetweenSwitchStatements ==
    [][(/\ ReqStep
        /\ req.pc = "active"
        /\ ~req'.fault
        /\ cmd[1].op = "switch" /\ cmd[1].pc = "set")
          => (req'.pc = "failed" /\ req'.status = 503)]_vars

\* a request without a session id was answered 503 between the statements
\* of a switch from an account that was active to another account, and the
\* switch has set that account active since
ReadBetweenSwitchWitness ==
    /\ req.pc = "failed" /\ req.status = 503 /\ ~req.fault /\ ~req.sid.some
    /\ cmd[1].op = "switch" /\ cmd[1].pc = "verify"
    /\ cmd[1].was \in DOMAIN accounts
    /\ cmd[1].was # cmd[1].id
    /\ ActiveIds(accounts) = {cmd[1].id}

----------------------------------------------------------------------------
(* Properties of the tasks of a response stream (SpecBuilder) *)

\* C22: the text events of a response take effect in chunk-arrival order:
\* under every scheduling of the append tasks, the accumulated response text
\* is the texts of the chunks in the order the chunks arrived.
TextInArrivalOrder ==
    \A i, j \in DOMAIN rb.text : i < j => rb.text[i] < rb.text[j]

\* C23: when the response stream has ended and its tasks have run, with
\* hooks and api logging enabled, the completion fan-out (request_success or
\* request_failed, response_complete, request_after) has been dispatched
\* exactly once, whether the response carried zero, one or several usage
\* events.
FanoutExactlyOnce ==
    (/\ upstream = <<>>
     /\ received # <<>>
     /\ \A t \in tasks : t.job # "trigger_hooks"
     /\ apiLog /\ rb.hooks_enabled)
        => rb.fanout = <<IF rb.is_success THEN "request_success" ELSE "request_failed",
                         "response_complete", "request_after">>

----------------------------------------------------------------------------
(* Properties of the step tracker (SpecTracker) *)

\* a step in which a task of the given job has run
Ran(job) == \E t \in tasks : t.job = job /\ t \notin tasks'

\* C24: when a tool-use event maps to a phase different from the current
\* phase, the tracker emits COMPLETED (progress 100) for the previous phase,
\* appends the previous phase to the completed list, sets the new phase as
\* current and emits IN_PROGRESS for it; with no current phase only the
\* IN_PROGRESS is emitted.
PhaseChangeRecorded ==
    [][(/\ Ran("process_tool_use")
        /\ tracker'.current # tracker.current)
          => IF tracker.current = "none"
                THEN /\ tracker'.emitted = Append(tracker.emitted,
                            Update("IN_PROGRESS", tracker'.current, 0, <<>>))
                     /\ tracker'.completed = tracker.completed
                ELSE /\ tracker'.emitted = tracker.emitted \o
                            <<Update("COMPLETED", tracker.current, 100, <<>>),
                              Update("IN_PROGRESS", tracker'.current, 0, <<>>)>>
                     /\ tracker'.completed = Append(tracker.completed, tracker.current)]_vars

\* C25: a tool-use event of the current phase emits one IN_PROGRESS and no
\* COMPLETED, an event of a tool that maps to no phase (user interaction,
\* sub-agent, unknown) emits nothing, and both leave the current phase and
\* the completed list as they are; Bash is VERIFICATION exactly when its
\* command contains a test keyword and IMPLEMENTATION otherwise.
SamePhaseOrNoPhase ==
    [][(Ran("process_tool_use") /\ tracker.has_sid)
          => LET ev == tracker'.last
                 bash == IF ev.command = "keyword" THEN "VERIFICATION"
                                                   ELSE "IMPLEMENTATION"
             IN  /\ ev.name = "Bash" => tracker'.current = bash
                 /\ (\/ ev.name = "Bash" /\ tracker.current = bash
                     \/ ev.name = "Read" /\ tracker.current = "ANALYSIS"
                     \/ ev.name = "EnterPlanMode" /\ tracker.current = "DESIGN"
                     \/ ev.name = "Edit" /\ tracker.current = "IMPLEMENTATION")
                       => /\ tracker'.current = tracker.current
                          /\ tracker'.completed = tracker.completed
                          /\ tracker'.emitted = Append(tracker.emitted,
                                 Update("IN_PROGRESS", tracker.current, 0, <<>>))
                 /\ ev.name \in {"AskUserQuestion", "Task", "Frobnicate"}
                       => /\ tracker'.current = tracker.current
                          /\ tracker'.completed = tracker.completed
                          /\ tracker'.emitted = tracker.emitted]_vars

\* a Bash event without a test keyword came in the IMPLEMENTATION phase that
\* an Edit had begun
SamePhaseWitness ==
    /\ tracker.last = [name |-> "Bash", command |-> "plain"]
    /\ tracker.current = "IMPLEMENTATION"
    /\ tracker.emitted = <<Update("COMPLETED", "ANALYSIS", 100, <<>>),
                           Update("IN_PROGRESS", "IMPLEMENTATION", 0, <<>>),
                           Update("IN_PROGRESS", "IMPLEMENTATION", 0, <<>>)>>

\* C26: when a response stream has ended and every task spawned for its
\* chunks has finished, the session has no current phase, also when the
\* stream ends without a usage event and under every scheduling of the
\* tool-use task and the completion task.
NoPhaseAfterStream ==
    (/\ tracker.has_sid
     /\ upstream = <<>>
     /\ received # <<>>
     /\ \A t \in tasks : t.job \notin {"process_tool_use", "complete_current_step"})
        => tracker.current = "none"

\* C27: a response that terminates with stop_reason end_turn emits a
\* session-complete event whose completed list is every phase the session
\* has completed (by a change of phase or at stream end), in completion
\* order; no other stop_reason emits one (for a session with a mapping).
SessionCompleteListsAll ==
    [][(Ran("complete_current_step") /\ tracker.has_sid /\ tracker.mapped)
          => LET em == tracker'.emitted
                 sent == /\ Len(em) > Len(tracker.emitted)
                         /\ em[Len(em)].status = "SESSION_COMPLETE"
                 done == SelectSeq(em, LAMBDA u : u.status = "COMPLETED")
             IN  /\ sent <=> tracker'.stop = "end_turn"
                 /\ sent => em[Len(em)].steps = [k \in DOMAIN done |-> done[k].step]]_vars

----------------------------------------------------------------------------
(* Properties of the DB-task semaphore (SpecSem) *)

Holders == sem.logging + sem.hooking

\* C28: at every moment at most 10 usage-log tasks hold a permit; a task
\* that finds no permit free is dropped at once (it never waits, inserts no
\* usage row and sends no usage webhook), and every permit taken is given
\* back when its task ends, so the permits never leak.
PermitsBoundedAndReturned ==
    /\ [](/\ Holders <= 10
           /\ sem.permits + Holders = 10
           /\ sem.rows <= sem.hooking + sem.ended
           /\ sem.hooks <= sem.ended
           /\ sem.spawned = sem.new + Holders + sem.dropped + sem.ended)
    /\ [][(sem'.new < sem.new /\ Holders = 10)
             => /\ sem'.dropped = sem.dropped + 1
                /\ sem'.logging = sem.logging /\ sem'.hooking = sem.hooking
                /\ sem'.rows = sem.rows /\ sem'.hooks = sem.hooks
                /\ sem'.permits = sem.permits]_vars

\* an eleventh task was dropped while ten held the permits, and all ten
\* have ended since and given their permits back
PermitsReturnedWitness ==
    /\ sem.dropped = 1
    /\ sem.ended = 10
    /\ sem.permits = 10
    /\ sem.rows > 0 /\ sem.hooks > 0

----------------------------------------------------------------------------
(* Properties of the SSE scanner (SpecScan) *)

Scanned == scan.pos = NumChunks(scan.cuts)

\* C29: the events the scanner extracts from a response do not depend on
\* how the byte stream is cut into chunks: a data line split across two
\* chunks is dispatched once, so any two chunkings of the same stream yield
\* the same text, tool-use and usage events.
ChunkingIndependent ==
    Scanned =>
      \A cuts \in SUBSET CutPoints(scan.lines) :
         LET other == ScanFrom(scan.lines, cuts, 1)
             Text(out) == Concat(OfKind(out, "Text"))
         IN  /\ OfKind(scan.out, "ToolUse") = OfKind(other, "ToolUse")
             /\ OfKind(scan.out, "Usage") = OfKind(other, "Usage")
             /\ Text(scan.out) = Text(other)

RECURSIVE LeftToRight(_)
\* one event per data line, in the order of the lines; the texts of
\* adjacent text lines may come as one event
LeftToRight(ls) ==
    IF ls = <<>> THEN <<>>
    ELSE LET l == Head(ls)
             rest == LeftToRight(Tail(ls))
         IN  CASE l.kind = "tool_use" -> <<[kind |-> "ToolUse", arg |-> <<l.arg>>]>> \o rest
               [] l.kind = "usage" -> <<[kind |-> "Usage", arg |-> <<l.arg>>]>> \o rest
               [] l.kind = "text" ->
                    IF rest # <<>> /\ rest[1].kind = "Text"
                       THEN <<[kind |-> "Text", arg |-> <<l.arg>> \o rest[1].arg]>>
                              \o Tail(rest)
                       ELSE <<[kind |-> "Text", arg |-> <<l.arg>>]>> \o rest
               [] OTHER -> rest

\* C30: the scanner handles every data line of a chunk, left to right:
\* each tool_use block yields one ToolUse event, each text delta contributes
\* its text, each usage yields one Usage event; a chunk with two tool_use
\* blocks yields two ToolUse events.
EveryLineLeftToRight ==
    [][scan'.pos = scan.pos + 1
         => scan'.out = scan.out \o
               LeftToRight(WholeLines(scan.lines, scan.cuts, scan'.pos, 1))]_vars

----------------------------------------------------------------------------
(* Properties of the hook registry (SpecRegistry) *)

\* the body the k-th hook of a dispatch left
LeftBy(k) == IF k = 0 THEN reg.d.orig
             ELSE IF reg.calls[k].some THEN reg.calls[k].output
             ELSE reg.calls[k].input

\* C31: apply_request_modifications runs the mutating hooks in
\* registration order, each hook receiving the body as left by the previous
\* hooks; it returns the final body when at least one hook returned a
\* replacement and 'not modified' when none did. Registration only appends.
ModifyHooksChained ==
    /\ [](\A k \in DOMAIN reg.calls :
            reg.d.kind = "apply_request" => reg.calls[k].input = LeftBy(k - 1))
    /\ [][(/\ reg.d.kind = "apply_request"
            /\ reg.d.pc = "loop" /\ reg'.d.pc = "idle")
              => /\ [k \in DOMAIN reg.calls |-> reg.calls[k].hook] = reg.modify_hooks
                 /\ reg'.result =
                      IF \E k \in DOMAIN reg.calls : reg.calls[k].some
                         THEN [some |-> TRUE, body |-> LeftBy(Len(reg.calls))]
                         ELSE [some |-> FALSE, body |-> <<>>]]_vars
    /\ [][(reg'.modify_hooks # reg.modify_hooks
              => \E h \in ModifyHooks : reg'.modify_hooks = Append(reg.modify_hooks, h))
           /\ (reg'.hooks # reg.hooks
              => \E g \in HookNames : reg'.hooks = Append(reg.hooks, g))]_vars

\* two hooks have run, the second on the replacement of the first
ModifyHooksChainedWitness ==
    /\ reg.d.kind = "apply_request" /\ reg.d.pc = "idle"
    /\ reg.modify_hooks = <<"tag_a", "b_after_a">>
    /\ reg.d.orig = <<>>
    /\ Len(reg.calls) = 2
    /\ reg.result = [some |-> TRUE, body |-> <<"a", "b">>]

----------------------------------------------------------------------------
(* Properties of the message try_intercept looks at (SpecIntercept) *)

\* C33: the command interceptor looks for the directive in the last
\* message whose role is user, wherever that message stands in the messages
\* array: a body whose last user message carries the directive is
\* intercepted also when it is followed by messages of another role.
LastUserMessageInspected ==
    icpt.done =>
      LET users == SelectSeq(icpt.messages, LAMBDA m : m.role = "user")
      IN  icpt.intercepted <=>
             (users # <<>> /\ users[Len(users)].content = "directive")

----------------------------------------------------------------------------
(* Properties of delete_account (SpecDelete) *)

\* the rows and the key of the accounts other than id
Others(accts, sess, usage, keys, id) ==
    <<[a \in DOMAIN accts \ {id} |-> accts[a]],
      [k \in {x \in DOMAIN sess : sess[x].account_id # id} |-> sess[k]],
      {u \in usage : u.account_id # id},
      keys \ {id}>>

\* C34: after delete_account(id) returns successfully the store holds no
\* account row with that id, no usage-log row and no session row that
\* references it and no key-vault entry for it; every other account, its
\* rows and its key are unchanged by the command.
DeleteRemovesOnlyThatAccount ==
    [][\A c \in CmdSlots :
         LET id == cmd[c].id
             start == cmd'[c].op = "delete" /\ cmd'[c].pc = "delkey"
                         /\ cmd[c].pc # "delkey"
             return == cmd[c].op = "delete" /\ cmd'[c].pc = "done"
         IN  /\ return =>
                  /\ id \notin DOMAIN accounts'
                  /\ \A k \in DOMAIN sessions' : sessions'[k].account_id # id
                  /\ \A u \in usageLog' : u.account_id # id
                  /\ id \notin apiKeys'
                  /\ Others(accounts', sessions', usageLog', apiKeys', id)
                        = Others(accounts, sessions, usageLog, apiKeys, id)
             /\ start =>
                  Others(accounts', sessions', usageLog', apiKeys', cmd'[c].id)
                    = Others(accounts, sessions, usageLog, apiKeys, cmd'[c].id)]_vars

----------------------------------------------------------------------------
(* Properties of the body sent upstream (SpecOverride) *)

----------------------------------------------------------------------------
(* Properties of the compaction injector (SpecInject) *)

\* the text of an Option<String> is there and not empty
NonEmpty(s) == s # NoString /\ s # ""

\* C36: for a summarization request the injector changes the body only
\* when it is enabled and summarization_instructions is non-empty; it then
\* inserts the instruction block immediately before the first marker
\* phrase, or appends it at the end when the marker is absent, and the rest
\* of the body is unchanged; with disabled, absent or empty instructions it
\* reports no modification.
SummarizationInstructionsInjected ==
    (inj.pc = "done" /\ Contains(inj.body, "task")) =>
      IF inj.config.enabled /\ NonEmpty(inj.config.summarization_instructions)
         THEN /\ inj.some
              /\ \/ \E i \in DOMAIN inj.body :
                      /\ inj.body[i] = "marker"
                      /\ \A j \in 1..(i - 1) : inj.body[j] # "marker"
                      /\ Len(inj.out) = Len(inj.body) + 3
                      /\ \A j \in 1..(i - 1) : inj.out[j] = inj.body[j]
                      /\ inj.out[i] = "## Additional Summarization Instructions"
                      /\ inj.out[i + 1] = inj.config.summarization_instructions
                      /\ \A j \in i..Len(inj.body) : inj.out[j + 3] = inj.body[j]
                 \/ /\ \A i \in DOMAIN inj.body : inj.body[i] # "marker"
                    /\ Len(inj.out) = Len(inj.body) + 2
                    /\ SubSeq(inj.out, 1, Len(inj.body)) = inj.body
                    /\ inj.out[Len(inj.body) + 2] = inj.config.summarization_instructions
         ELSE ~inj.some

\* C37: for a compacted-continuation request the injected block is placed
\* immediately after the continuation phrase, provider context first and
\* the static context_injection under its heading second, each only when
\* non-empty; when both are absent or empty the body is unchanged and the
\* hook reports no modification.
ContextInjectedAfterPhrase ==
    (inj.pc = "done" /\ inj.config.enabled /\ Contains(inj.body, "cont.")
       /\ ~Contains(inj.body, "task")) =>
      LET p == IF inj.config.context_providers_enabled THEN inj.fetched ELSE NoString
          s == inj.config.context_injection
          block == (IF NonEmpty(p) THEN <<"nl nl", p>> ELSE <<>>)
                     \o (IF NonEmpty(s) THEN <<"## Persistent Context", s, "nl">>
                                        ELSE <<>>)
      IN  IF block = <<>>
             THEN ~inj.some
             ELSE /\ inj.some
                  /\ \E i \in DOMAIN inj.body :
                       /\ inj.body[i] = "cont."
                       /\ \A j \in 1..(i - 1) : inj.body[j] # "cont."
                       /\ inj.out = SubSeq(inj.body, 1, i) \o block
                                      \o SubSeq(inj.body, i + 1, Len(inj.body))
----------------------------------------------------------------------------
(* Properties of account creation (SpecCreate) *)

\* C38: after any interleaving of create_account commands on a store that
\* had no accounts, none of which failed to store its key, exactly one
\* account is active once all of them have returned; and a create_account
\* that goes on to activate its account finds no other account active.
CreateActivatesFirst ==
    /\ ((\A c \in CmdSlots : CmdFree(c)) /\ DOMAIN accounts # {}
           /\ apiKeys = DOMAIN accounts)
          => Cardinality(ActiveIds(accounts)) = 1
    /\ \A c \in CmdSlots :
          (cmd[c].op = "create" /\ cmd[c].pc = "set")
             => ActiveIds(accounts) \subseteq {cmd[c].id}
----------------------------------------------------------------------------
(* Properties of question detection (SpecQuestion) *)

\* C40: question detection works on the text accumulated over the chunks of
\* a response: a question phrase whose text is delivered in two consecutive
\* chunks is detected once the second chunk has been processed, a detection
\* leaves the buffer empty, and the buffer never holds more than 4096 bytes
\* after a chunk has been processed.
QuestionAcrossChunksDetected ==
    \A i \in DOMAIN qd.texts :
        /\ (i > 1 /\ qd.texts[i - 1].t = "should i " /\ qd.texts[i].t = "proceed"
               /\ ~qd.detected[i - 1])
              => qd.detected[i]
        /\ qd.detected[i] => qd.after[i] = <<>>
        /\ Bytes(qd.after[i]) <= 4096
============================================================================
